---- MODULE Spec2Model ----
(***************************************************************************)
(* Model of the workout tracker "reps": the WorkoutData snapshot held by   *)
(* the useWorkoutData hook, its mutation entry points, the derivation      *)
(* functions of utils/stats and the part of the presentation layer that    *)
(* decides which mutation a user can issue.                                *)
(*                                                                         *)
(* Time.  An ISO-8601 timestamp is an integer number of ticks since the    *)
(* epoch (UTC); a day has TicksPerDay ticks.  toISOString().split('T')[0]  *)
(* is the UTC day number DatePart(t).  Date-strings "YYYY-MM-DD" compare   *)
(* as strings exactly as their day numbers compare as integers.            *)
(*                                                                         *)
(* Identity.  generateId() is a fresh identifier: the counter nextId.      *)
(* An absent optional field (endTime) is the empty sequence, a present one *)
(* a one-element sequence.                                                 *)
(*                                                                         *)
(* Weights.  A weight is an integer number of hundredths of a kilogram;   *)
(* a text typed into an input is a tagged record, a numeral carrying the   *)
(* number it denotes and its decimal separator.                            *)
(*                                                                         *)
(* History.  A Set carries, besides reps and weight, a history field tag   *)
(* (0 when the caller does not track it); logged and last are history      *)
(* variables: who logged which set, the last operation issued and the     *)
(* snapshot it was issued on.                                              *)
(*                                                                         *)
(* Storage.  store is the localStorage item: NoItem, or a text.  A text    *)
(* that JSON.parse accepts is the JSON value it denotes together with its  *)
(* indentation; writable tells whether localStorage.setItem succeeds.      *)
(***************************************************************************)
EXTENDS Integers, Sequences, FiniteSets, TLC

VARIABLES data, now, nextId, steps, tz, tab, sel, ret, detail, past, logged,
          last, prev, store, writable, expanded, reps, weight, editingSet

vars == <<data, now, nextId, steps, tz, tab, sel, ret, detail, past, logged,
          last, prev, store, writable, expanded, reps, weight, editingSet>>

uiVars == <<tab, sel, ret, detail, past, expanded, reps, weight, editingSet>>

----------------------------------------------------------------------------
(* Bounds of the model *)

\* number of operations issued to the mutation layer in one behaviour
MaxSteps == 3

\* number of user actions in one behaviour of the presentation layer
MaxUISteps == 6

\* exercises the screens add at most
MaxExercises == 3

\* a day is split in two halves, so that two timestamps can share a day
DayParts == {"am", "pm"}

TicksPerDay == Cardinality(DayParts)

----------------------------------------------------------------------------
(* Sequence helpers.  Array.prototype.filter is SelectSeq, map is a         *)
(* function constructor over the sequence's domain.                        *)

Max(a, b) == IF a >= b THEN a ELSE b

Range(s) == {s[i] : i \in DOMAIN s}

Includes(s, x) == \E i \in DOMAIN s : s[i] = x

\* findIndex / find over the sequence of the test's results: the 1-based
\* index of the first TRUE, 0 when there is none (JavaScript: 0-based, -1)
FirstTrue(flags) ==
  IF \E i \in DOMAIN flags : flags[i]
  THEN CHOOSE i \in DOMAIN flags : flags[i] /\ \A j \in 1..(i - 1) : ~flags[j]
  ELSE 0

\* an index past the end removes the last element
RemoveAt_wrapping(s, idx) ==
  IF idx + 1 \in DOMAIN s \/ s = <<>>
  THEN [i \in 1..(Len(s) - (IF idx + 1 \in DOMAIN s THEN 1 ELSE 0)) |->
          IF i < idx + 1 THEN s[i] ELSE s[i + 1]]
  ELSE SubSeq(s, 1, Len(s) - 1)

\* filter((_, i) => i !== idx) with a 0-based idx
RemoveAt(s, idx) ==
  [i \in 1..(Len(s) - (IF idx + 1 \in DOMAIN s THEN 1 ELSE 0)) |->
     IF i < idx + 1 THEN s[i] ELSE s[i + 1]]

----------------------------------------------------------------------------
(* Dates *)

\* isoString.split('T')[0]: the UTC calendar day of a timestamp
DatePart(t) == t \div TicksPerDay

----------------------------------------------------------------------------
(* Data model (types) *)

Categories == {"Push", "Pull"}

Names == {"n"}

NewExercise(id, name, category) ==
  [id |-> id, name |-> name, category |-> category, sessions |-> <<>>]

\* a session created without the set
NewExerciseSession_noSet(id, t, set) == [id |-> id, date |-> t, sets |-> <<>>]

NewExerciseSession(id, t, set) == [id |-> id, date |-> t, sets |-> <<set>>]

NewWorkoutSession(id, t) ==
  [id |-> id, startTime |-> t, endTime |-> <<>>, exerciseIds |-> <<>>,
   isDwarfWorkout |-> FALSE]

MkSet(r, w, tag) == [reps |-> r, weight |-> w, tag |-> tag]

----------------------------------------------------------------------------
(* JSON.  A JSON value is a tagged record; an object's members are a       *)
(* function from its keys.  JSON.stringify leaves out the members whose    *)
(* value is undefined, reading an absent member gives undefined.           *)

JNull == [k |-> "null"]

JNum(n) == [k |-> "num", v |-> n]

JStr(x) == [k |-> "str", v |-> x]

JBool(b) == [k |-> "bool", v |-> b]

JArr(seq) == [k |-> "arr", v |-> seq]

JObj(members) == [k |-> "obj", v |-> members]

NoMembers == [x \in {} |-> JNull]

SetToJSON(set) ==
  JObj([reps |-> JNum(set.reps), weight |-> JNum(set.weight),
        tag |-> JNum(set.tag)])

ExerciseSessionToJSON(s) ==
  JObj([id |-> JStr(s.id), date |-> JStr(s.date),
        sets |-> JArr([i \in DOMAIN s.sets |-> SetToJSON(s.sets[i])])])

ExerciseToJSON(e) ==
  JObj([id |-> JStr(e.id), name |-> JStr(e.name),
        category |-> JStr(e.category),
        sessions |-> JArr([i \in DOMAIN e.sessions |->
                             ExerciseSessionToJSON(e.sessions[i])])])

\* the optional members are never written
WorkoutSessionToJSON_withoutOptional(w) ==
  JObj([id |-> JStr(w.id), startTime |-> JStr(w.startTime),
        exerciseIds |-> JArr([i \in DOMAIN w.exerciseIds |->
                                JStr(w.exerciseIds[i])])])

\* endTime and isDwarfWorkout are optional: an unset one is left out
WorkoutSessionToJSON(w) ==
  JObj([id |-> JStr(w.id), startTime |-> JStr(w.startTime),
        exerciseIds |-> JArr([i \in DOMAIN w.exerciseIds |->
                                JStr(w.exerciseIds[i])])]
       @@ (IF w.endTime = <<>> THEN NoMembers
           ELSE [endTime |-> JStr(w.endTime[1])])
       @@ (IF w.isDwarfWorkout THEN [isDwarfWorkout |-> JBool(TRUE)]
           ELSE NoMembers))

\* the JSON value JSON.stringify writes for a snapshot
ToJSON(d) ==
  JObj([exercises |-> JArr([i \in DOMAIN d.exercises |->
                              ExerciseToJSON(d.exercises[i])]),
        workoutSessions |-> JArr([i \in DOMAIN d.workoutSessions |->
                              WorkoutSessionToJSON(d.workoutSessions[i])])])

\* JSON.stringify(data, null, indent)
JSONstringify(d, indent) == [k |-> "text", indent |-> indent, json |-> ToJSON(d)]

\* a text JSON.parse throws on
Garbage == [k |-> "garbage"]

\* the empty string
EmptyText == [k |-> "empty"]

\* localStorage.getItem of a key never set
NoItem == [k |-> "none"]

\* JSON.parse: the value of the text, or the empty sequence when it throws
JSONparse(text) == IF text.k = "text" THEN <<text.json>> ELSE <<>>

HasMember(j, name) == j.k = "obj" /\ name \in DOMAIN j.v

SetFromJSON(j) == [reps |-> j.v.reps.v, weight |-> j.v.weight.v, tag |-> j.v.tag.v]

ExerciseSessionFromJSON(j) ==
  [id |-> j.v.id.v, date |-> j.v.date.v,
   sets |-> [i \in DOMAIN j.v.sets.v |-> SetFromJSON(j.v.sets.v[i])]]

ExerciseFromJSON(j) ==
  [id |-> j.v.id.v, name |-> j.v.name.v, category |-> j.v.category.v,
   sessions |-> [i \in DOMAIN j.v.sessions.v |->
                   ExerciseSessionFromJSON(j.v.sessions.v[i])]]

WorkoutSessionFromJSON(j) ==
  [id |-> j.v.id.v, startTime |-> j.v.startTime.v,
   endTime |-> IF HasMember(j, "endTime") THEN <<j.v.endTime.v>> ELSE <<>>,
   exerciseIds |-> [i \in DOMAIN j.v.exerciseIds.v |-> j.v.exerciseIds.v[i].v],
   isDwarfWorkout |-> HasMember(j, "isDwarfWorkout")
                        /\ j.v.isDwarfWorkout = JBool(TRUE)]

\* a parsed value read as WorkoutData (data as WorkoutData)
FromJSON(j) ==
  [exercises |-> [i \in DOMAIN j.v.exercises.v |->
                    ExerciseFromJSON(j.v.exercises.v[i])],
   workoutSessions |-> [i \in DOMAIN j.v.workoutSessions.v |->
                    WorkoutSessionFromJSON(j.v.workoutSessions.v[i])]]

----------------------------------------------------------------------------
(* Mutation layer: each entry point as a function from the previous        *)
(* snapshot and a command to the next snapshot (setData(prev => ...)).     *)

addExercise(d, id, name, category) ==
  [d EXCEPT !.exercises = Append(@, NewExercise(id, name, category))]

\* the exercise is removed and its id is taken out of every exerciseIds
deleteExercise_cascade(d, exerciseId) ==
  [d EXCEPT
     !.exercises = SelectSeq(@, LAMBDA e : e.id # exerciseId),
     !.workoutSessions =
        [i \in DOMAIN d.workoutSessions |->
           [d.workoutSessions[i] EXCEPT
              !.exerciseIds = SelectSeq(@, LAMBDA x : x # exerciseId)]]]

deleteExercise(d, exerciseId) ==
  [d EXCEPT !.exercises = SelectSeq(@, LAMBDA e : e.id # exerciseId)]

\* the existing session is looked up by its full timestamp
addSetToExerciseSessions_byTimestamp(sessions, set, t, newId) ==
  LET existingSessionIndex ==
        FirstTrue([k \in DOMAIN sessions |-> sessions[k].date = t])
  IN IF existingSessionIndex >= 1
     THEN [sessions EXCEPT ![existingSessionIndex].sets = Append(@, set)]
     ELSE Append(sessions, NewExerciseSession(newId, t, set))

\* the body of exercises.map for the exercise with the given id
addSetToExerciseSessions(sessions, set, t, newId) ==
  LET existingSessionIndex ==
        FirstTrue([k \in DOMAIN sessions |->
                     DatePart(sessions[k].date) = DatePart(t)])
  IN IF existingSessionIndex >= 1
     THEN [sessions EXCEPT ![existingSessionIndex].sets = Append(@, set)]
     ELSE Append(sessions, NewExerciseSession(newId, t, set))

addSetToExercise(d, exerciseId, set, t, newId) ==
  [d EXCEPT !.exercises =
     [i \in DOMAIN @ |->
        IF @[i].id # exerciseId THEN @[i]
        ELSE [@[i] EXCEPT !.sessions =
                addSetToExerciseSessions(@, set, t, newId)]]]

\* sessions left without sets are kept
deleteSetSessions_noPrune(sessions, sessionId, setIndex) ==
  [k \in DOMAIN sessions |->
     IF sessions[k].id # sessionId THEN sessions[k]
     ELSE [sessions[k] EXCEPT !.sets = RemoveAt(@, setIndex)]]

\* the body of exercises.map for the exercise with the given id
deleteSetSessions(sessions, sessionId, setIndex) ==
  SelectSeq([k \in DOMAIN sessions |->
               IF sessions[k].id # sessionId THEN sessions[k]
               ELSE [sessions[k] EXCEPT !.sets = RemoveAt(@, setIndex)]],
            LAMBDA s : Len(s.sets) > 0)

deleteSet(d, exerciseId, sessionId, setIndex) ==
  [d EXCEPT !.exercises =
     [i \in DOMAIN @ |->
        IF @[i].id # exerciseId THEN @[i]
        ELSE [@[i] EXCEPT !.sessions =
                deleteSetSessions(@, sessionId, setIndex)]]]

\* the set at setIndex of the session is replaced; the history tag of the
\* set stays with its position
updateSetSessions(sessions, sessionId, setIndex, set) ==
  [j \in DOMAIN sessions |->
     IF sessions[j].id = sessionId /\ setIndex + 1 \in DOMAIN sessions[j].sets
     THEN [sessions[j] EXCEPT !.sets[setIndex + 1] =
             [reps |-> set.reps, weight |-> set.weight, tag |-> @.tag]]
     ELSE sessions[j]]

updateSet(d, exerciseId, sessionId, setIndex, set) ==
  [d EXCEPT !.exercises =
     [i \in DOMAIN d.exercises |->
        IF d.exercises[i].id = exerciseId
        THEN [d.exercises[i] EXCEPT !.sessions =
                updateSetSessions(d.exercises[i].sessions, sessionId,
                                  setIndex, set)]
        ELSE d.exercises[i]]]

startWorkoutSession(d, id, t) ==
  [d EXCEPT !.workoutSessions = Append(@, NewWorkoutSession(id, t))]

\* the matching session is toggled between active and completed
endWorkoutSession_toggle(d, sessionId, t) ==
  [d EXCEPT !.workoutSessions =
     [i \in DOMAIN @ |->
        IF @[i].id = sessionId
        THEN [@[i] EXCEPT !.endTime = IF @ = <<>> THEN <<t>> ELSE <<>>]
        ELSE @[i]]]

endWorkoutSession(d, sessionId, t) ==
  [d EXCEPT !.workoutSessions =
     [i \in DOMAIN @ |->
        IF @[i].id = sessionId THEN [@[i] EXCEPT !.endTime = <<t>>]
        ELSE @[i]]]

\* the sessions of that date are removed from every exercise
deleteWorkoutSessionExercises_all(exercises, exerciseIdsInSession, sessionDate) ==
  [i \in DOMAIN exercises |->
     [exercises[i] EXCEPT !.sessions =
        SelectSeq(@, LAMBDA es : DatePart(es.date) # sessionDate)]]

deleteWorkoutSessionExercises(exercises, exerciseIdsInSession, sessionDate) ==
  [i \in DOMAIN exercises |->
     IF ~Includes(exerciseIdsInSession, exercises[i].id) THEN exercises[i]
     ELSE [exercises[i] EXCEPT !.sessions =
             SelectSeq(@, LAMBDA es : DatePart(es.date) # sessionDate)]]

deleteWorkoutSession(d, sessionId) ==
  LET idx == FirstTrue([k \in DOMAIN d.workoutSessions |->
                          d.workoutSessions[k].id = sessionId])
  IN IF idx = 0 THEN d
     ELSE LET sessionToDelete == d.workoutSessions[idx]
          IN [d EXCEPT
                !.exercises =
                  deleteWorkoutSessionExercises(@,
                     sessionToDelete.exerciseIds,
                     DatePart(sessionToDelete.startTime)),
                !.workoutSessions =
                  SelectSeq(@, LAMBDA s : s.id # sessionId)]

\* the variant that leaves the session's exerciseIds alone
addExerciseToWorkoutSession_skip(d, sessionId, exerciseId) == d

\* the id is appended without looking for it first
addExerciseToWorkoutSession_always(d, sessionId, exerciseId) ==
  [d EXCEPT !.workoutSessions =
     [i \in DOMAIN @ |->
        IF @[i].id = sessionId
        THEN [@[i] EXCEPT !.exerciseIds = Append(@, exerciseId)]
        ELSE @[i]]]

addExerciseToWorkoutSession(d, sessionId, exerciseId) ==
  [d EXCEPT !.workoutSessions =
     [i \in DOMAIN @ |->
        IF @[i].id = sessionId /\ ~Includes(@[i].exerciseIds, exerciseId)
        THEN [@[i] EXCEPT !.exerciseIds = Append(@, exerciseId)]
        ELSE @[i]]]

\* replaceData(newData): setData(newData)
replaceData(d, newData) == newData

\* sessions are compared by their whole timestamp
removeSessionsFromDate_exactTimestamp(d, t) ==
  [d EXCEPT !.exercises =
     [i \in DOMAIN d.exercises |->
        [d.exercises[i] EXCEPT !.sessions =
           SelectSeq(@, LAMBDA s : s.date # t)]]]

removeSessionsFromDate(d, t) ==
  [d EXCEPT !.exercises =
     [i \in DOMAIN @ |->
        [@[i] EXCEPT !.sessions =
           SelectSeq(@, LAMBDA s : DatePart(s.date) # DatePart(t))]]]

\* the dates of all workout sessions, completed or not
validWorkoutDates_anySession(d) ==
  {DatePart(w.startTime) : w \in Range(d.workoutSessions)}

\* the dates of the workout sessions with an endTime
validWorkoutDates(d) ==
  {DatePart(w.startTime) :
     w \in {x \in Range(d.workoutSessions) : x.endTime # <<>>}}

cleanOrphanedSessions(d) ==
  IF Len(d.workoutSessions) = 0 THEN d
  ELSE [d EXCEPT !.exercises =
          [i \in DOMAIN d.exercises |->
             [d.exercises[i] EXCEPT !.sessions =
                SelectSeq(@, LAMBDA s :
                  DatePart(s.date) \in validWorkoutDates(d))]]]

\* find(s => !s.endTime) || null : the empty sequence stands for null
getActiveWorkoutSession(d) ==
  LET idx == FirstTrue([k \in DOMAIN d.workoutSessions |->
                          d.workoutSessions[k].endTime = <<>>])
  IN IF idx = 0 THEN <<>> ELSE <<d.workoutSessions[idx]>>

----------------------------------------------------------------------------
(* Derivation functions (utils/stats).  A Date is an instant in ticks     *)
(* (UTC); tz is the offset of local time in ticks (local = UTC + tz), so  *)
(* getDay / setHours / setDate work on t + tz and toISOString on t.       *)

\* new Date("YYYY-MM-DD"): a date-only string is UTC midnight of that day
ParseDate(day) == day * TicksPerDay

\* the local calendar day of an instant
LocalDay(t) == (t + tz) \div TicksPerDay

\* Date.prototype.getDay of a calendar day, 0 = Sunday; day 0 (1970-01-01)
\* was a Thursday
DayOfWeek(day) == (day + 4) % 7

\* local midnight of a local calendar day, as an instant
LocalMidnight(day) == day * TicksPerDay - tz

\* the sequence without the elements that occur earlier in it (the order
\* in which a JavaScript Set keeps what is added to it)
Distinct(s) ==
  LET keep == {i \in DOMAIN s : \A j \in 1..(i - 1) : s[j] # s[i]}
      F[k \in 0..Len(s)] ==
        IF k = 0 THEN <<>>
        ELSE IF k \in keep THEN Append(F[k - 1], s[k]) ELSE F[k - 1]
  IN F[Len(s)]

\* Array.prototype.sort() of date-strings: each element goes to the
\* position given by the number of elements that sort before it (equal
\* elements keep their order)
Sort(s) ==
  LET rank == [i \in DOMAIN s |->
                 Cardinality({j \in DOMAIN s :
                                s[j] < s[i] \/ (s[j] = s[i] /\ j < i)}) + 1]
  IN [k \in DOMAIN s |-> s[CHOOSE i \in DOMAIN s : rank[i] = k]]

RECURSIVE Flatten(_)
Flatten(ss) == IF ss = <<>> THEN <<>> ELSE Head(ss) \o Flatten(Tail(ss))

\* the dates added by the loop over exercises and their sessions
ExerciseSessionDates(d) ==
  Flatten([i \in DOMAIN d.exercises |->
             [j \in DOMAIN d.exercises[i].sessions |->
                DatePart(d.exercises[i].sessions[j].date)]])

\* every completed workout session contributes its date
WorkoutSessionDates_anyCompleted(d) ==
  LET counted == SelectSeq(d.workoutSessions, LAMBDA s : s.endTime # <<>>)
  IN [i \in DOMAIN counted |-> DatePart(counted[i].startTime)]

\* the dates added by the loop over workoutSessions (Dwarf workouts)
WorkoutSessionDates(d) ==
  LET counted == SelectSeq(d.workoutSessions,
                   LAMBDA s : s.isDwarfWorkout /\ s.endTime # <<>>)
  IN [i \in DOMAIN counted |-> DatePart(counted[i].startTime)]

getUniqueWorkoutDates(d) ==
  Sort(Distinct(ExerciseSessionDates(d) \o WorkoutSessionDates(d)))

getTotalWorkouts(d) == Len(getUniqueWorkoutDates(d))

\* startOfWeek: now.setDate(now.getDate() - now.getDay()), setHours(0,0,0,0)
StartOfWeek(t) == LocalMidnight(LocalDay(t) - DayOfWeek(LocalDay(t)))

\* dates.filter(dateStr => new Date(dateStr) >= startOfWeek).length
getWorkoutsThisWeek(d) ==
  Len(SelectSeq(getUniqueWorkoutDates(d),
                LAMBDA day : ParseDate(day) >= StartOfWeek(now)))

\* getWeekStart: local midnight of the Monday of the local week of t
getWeekStart(t) ==
  LET day == DayOfWeek(LocalDay(t))
      diff == IF day = 0 THEN -6 ELSE 1 - day
  IN LocalMidnight(LocalDay(t) + diff)

\* getWeekKey: weekStart.toISOString().split('T')[0]
getWeekKey(t) == DatePart(getWeekStart(t))

\* for (let i = 0; i < 52; i++)
WeeksChecked == 52

DaysPerWeek == 7

\* the loop without the exemption of the current week: the first week
\* without a workout date ends the count
RECURSIVE StreakLoop_noSkip(_, _, _, _)
StreakLoop_noSkip(weeksWithWorkouts, i, checkDate, streak) ==
  IF i >= WeeksChecked THEN streak
  ELSE IF getWeekKey(checkDate) \in weeksWithWorkouts
    THEN StreakLoop_noSkip(weeksWithWorkouts, i + 1,
                           checkDate - DaysPerWeek * TicksPerDay, streak + 1)
  ELSE streak

\* the loop of getCurrentStreak from iteration i on
RECURSIVE StreakLoop(_, _, _, _)
StreakLoop(weeksWithWorkouts, i, checkDate, streak) ==
  IF i >= WeeksChecked THEN streak
  ELSE IF getWeekKey(checkDate) \in weeksWithWorkouts
    THEN StreakLoop(weeksWithWorkouts, i + 1,
                    checkDate - DaysPerWeek * TicksPerDay, streak + 1)
  ELSE IF i = 0
    THEN StreakLoop(weeksWithWorkouts, i + 1,
                    checkDate - DaysPerWeek * TicksPerDay, streak)
  ELSE streak

getCurrentStreak(d) ==
  LET dates == getUniqueWorkoutDates(d)
      weeksWithWorkouts == {getWeekKey(ParseDate(dates[i])) : i \in DOMAIN dates}
  IN IF Len(dates) = 0 THEN 0
     ELSE StreakLoop(weeksWithWorkouts, 0, now, 0)

\* the ids of a session kept whatever their exercise's category
sameCategoryIds_anyCategory(exerciseIds, category, allExercises) == exerciseIds

\* an id of no exercise is kept
sameCategoryIds_keepUnresolved(exerciseIds, category, allExercises) ==
  LET InCategory(id) ==
        LET e == FirstTrue([k \in DOMAIN allExercises |->
                              allExercises[k].id = id])
        IN e = 0 \/ allExercises[e].category = category
  IN SelectSeq(exerciseIds, InCategory)

\* workoutSession.exerciseIds.filter(id => { const ex = allExercises.find(
\* e => e.id === id); return ex && ex.category === category; })
sameCategoryIds(exerciseIds, category, allExercises) ==
  LET InCategory(id) ==
        LET e == FirstTrue([k \in DOMAIN allExercises |->
                              allExercises[k].id = id])
        IN e # 0 /\ allExercises[e].category = category
  IN SelectSeq(exerciseIds, InCategory)

\* the exercises of the category with sets on any date
sameCategoryExercises_anyDate(allExercises, category, datePart) ==
  SelectSeq(allExercises,
    LAMBDA ex : /\ ex.category = category
                /\ \E i \in DOMAIN ex.sessions : Len(ex.sessions[i].sets) > 0)

\* allExercises.filter(ex => ex.category === category && ex.sessions.some(
\* s => s.date.split('T')[0] === datePart && s.sets.length > 0))
sameCategoryExercises(allExercises, category, datePart) ==
  SelectSeq(allExercises,
    LAMBDA ex : /\ ex.category = category
                /\ \E i \in DOMAIN ex.sessions :
                     /\ DatePart(ex.sessions[i].date) = datePart
                     /\ Len(ex.sessions[i].sets) > 0)

\* the 1-based rank in a one-element sequence, the empty sequence for null
getMuscleGroupOrder(exerciseId, category, sessionDate, workoutSessions, allExercises) ==
  LET datePart == DatePart(sessionDate)
      ws == FirstTrue([k \in DOMAIN workoutSessions |->
              /\ DatePart(workoutSessions[k].startTime) = datePart
              /\ Includes(workoutSessions[k].exerciseIds, exerciseId)])
      sameCategory ==
        IF ws = 0 THEN <<>>
        ELSE sameCategoryIds(workoutSessions[ws].exerciseIds, category,
                             allExercises)
      index == FirstTrue([k \in DOMAIN sameCategory |->
                            sameCategory[k] = exerciseId])
      fallback ==
        LET sameCategory2 == sameCategoryExercises(allExercises, category,
                                                   datePart)
        IN FirstTrue([k \in DOMAIN sameCategory2 |->
                        sameCategory2[k].id = exerciseId])
  IN IF ws # 0 /\ index # 0 THEN <<index>>
     ELSE IF fallback = 0 THEN <<>>
     ELSE <<fallback>>

\* the position of x in a sort by date, newest first, that keeps sessions
\* of equal date in their order
RECURSIVE InsertNewestFirst(_, _)
InsertNewestFirst(sorted, x) ==
  IF sorted = <<>> THEN <<x>>
  ELSE IF x.date >= Head(sorted).date THEN <<x>> \o sorted
  ELSE <<Head(sorted)>> \o InsertNewestFirst(Tail(sorted), x)

\* sessions.sort((a, b) => new Date(b.date).getTime() - new Date(a.date).getTime())
RECURSIVE SortNewestFirst(_)
SortNewestFirst(sessions) ==
  IF sessions = <<>> THEN <<>>
  ELSE InsertNewestFirst(SortNewestFirst(Tail(sessions)), Head(sessions))

\* the session returned (the empty sequence for null) and exercise.sessions
\* after the call: Array.prototype.sort sorts the array it is called on
getExerciseLastSession(exercise) ==
  IF Len(exercise.sessions) = 0
  THEN [value |-> <<>>, sessions |-> exercise.sessions]
  ELSE [value |-> <<SortNewestFirst(exercise.sessions)[1]>>,
        sessions |-> SortNewestFirst(exercise.sessions)]

\* filter builds a new array, which is the one sorted
getExercisePreviousSession(exercise) ==
  LET sorted == SortNewestFirst(SelectSeq(exercise.sessions,
                  LAMBDA x : DatePart(x.date) # DatePart(now)))
  IN [value |-> IF sorted = <<>> THEN <<>> ELSE <<sorted[1]>>,
      sessions |-> exercise.sessions]

\* the last count previous sessions, today's excluded, newest first
getExercisePreviousSessions(exercise, count) ==
  LET sorted == SortNewestFirst(SelectSeq(exercise.sessions,
                  LAMBDA x : DatePart(x.date) # DatePart(now)))
  IN SubSeq(sorted, 1, IF Len(sorted) < count THEN Len(sorted) ELSE count)

\* exercises.find(e => e.id === id): a one-element sequence, the empty
\* sequence for undefined
FindExercise(exercises, id) ==
  LET k == FirstTrue([i \in DOMAIN exercises |-> exercises[i].id = id])
  IN IF k = 0 THEN <<>> ELSE <<exercises[k]>>

\* exercise.sessions.find(s => s.date.split('T')[0] === dateStr)
FindSessionOn(exercise, day) ==
  LET k == FirstTrue([i \in DOMAIN exercise.sessions |->
                        DatePart(exercise.sessions[i].date) = day])
  IN IF k = 0 THEN <<>> ELSE <<exercise.sessions[k]>>

\* the exercises of the ids, in the order of the ids, that exist and whose
\* session of the day has sets
ExercisesWithSetsOn(exercises, exerciseIds, day) ==
  LET found == [k \in DOMAIN exerciseIds |->
                  FindExercise(exercises, exerciseIds[k])]
      kept == SelectSeq(found, LAMBDA x :
                /\ x # <<>>
                /\ FindSessionOn(x[1], day) # <<>>
                /\ Len(FindSessionOn(x[1], day)[1].sets) > 0)
  IN [k \in DOMAIN kept |-> kept[k][1]]

\* Workout.renderPastSessionCard: the exercises a past-workout card counts
exercisesWithSets(d, session) ==
  ExercisesWithSetsOn(d.exercises, session.exerciseIds,
                      DatePart(session.startTime))

\* WorkoutDetail: the exercises drawn, each with its session of the day
exercisesWithSessions(workoutSession, exercises) ==
  LET drawn == ExercisesWithSetsOn(exercises, workoutSession.exerciseIds,
                                   DatePart(workoutSession.startTime))
  IN [k \in DOMAIN drawn |->
        [exercise |-> drawn[k],
         session |-> FindSessionOn(drawn[k],
                                   DatePart(workoutSession.startTime))[1]]]

\* Workout, exercise picker: the exercises of the active session with sets
\* today
exercisedToday(d, activeSession) ==
  ExercisesWithSetsOn(d.exercises, activeSession.exerciseIds, DatePart(now))

----------------------------------------------------------------------------
(* Observers used by the actions and the properties *)

ExerciseIds(d) == {d.exercises[i].id : i \in DOMAIN d.exercises}

WorkoutSessionIds(d) ==
  {d.workoutSessions[i].id : i \in DOMAIN d.workoutSessions}

SessionsOf(d) == UNION {Range(e.sessions) : e \in Range(d.exercises)}

\* the exercise / workout session with an id (ids are unique)
ExerciseById(d, id) == CHOOSE e \in Range(d.exercises) : e.id = id

WorkoutById(d, id) == CHOOSE s \in Range(d.workoutSessions) : s.id = id

Op(name, a, b, c) == [op |-> name, a |-> a, b |-> b, c |-> c]

\* an id that no generateId() call has returned
UnknownId == 0

SetInputs == {MkSet(1, 0, 0), MkSet(2, 5, 0)}

----------------------------------------------------------------------------
(* SetLogger and the set editor of WorkoutDetail: the functions of their   *)
(* handlers.                                                               *)

\* useState(() => initialPreFill?.reps ?? 10)
DefaultReps == 10

\* adjustWeight(-2.5), adjustWeight(2.5)
WeightStep == 250

\* getExercisePreviousSessions(exercise, 3)
PreviousSessionsShown == 3

\* the decimal numeral of n hundredths, written with a point
Numeral(n) == [k |-> "numeral", v |-> n, sep |-> "."]

\* the same numeral written with a comma
CommaNumeral(n) == [k |-> "numeral", v |-> n, sep |-> ","]

\* a text that starts with a letter
Letters == [k |-> "letters"]

\* value.replace(',', '.')
ReplaceComma(text) ==
  IF text.k = "numeral" THEN [text EXCEPT !.sep = "."] ELSE text

\* the hundredths of the whole part, towards zero
WholePart(v) == IF v >= 0 THEN (v \div 100) * 100 ELSE -(((-v) \div 100) * 100)

\* parseFloat reads the longest numeric prefix: a numeral up to a comma;
\* the empty sequence stands for NaN
parseFloat(text) ==
  IF text.k = "numeral"
  THEN (IF text.sep = "." THEN <<text.v>> ELSE <<WholePart(text.v)>>)
  ELSE <<>>

\* parseInt reads the digits before the separator: a count, not hundredths
parseInt(text) ==
  IF text.k = "numeral"
  THEN (IF text.v >= 0 THEN <<text.v \div 100>> ELSE <<-((-text.v) \div 100)>>)
  ELSE <<>>

\* toFixed(1): the nearest tenth, the sign set aside
toFixed1(w) ==
  IF w >= 0 THEN ((w + 5) \div 10) * 10 ELSE -(((-w + 5) \div 10) * 10)

\* value % 1 === 0 ? String(value) : value.toFixed(1)
formatWeight(value) ==
  IF value % 100 = 0 THEN Numeral(value) ELSE Numeral(toFixed1(value))

\* exercise.sessions.find(s => s.date.split('T')[0] === todayDateStr)
todaySession(exercise) ==
  LET today == SelectSeq(exercise.sessions,
                 LAMBDA s : DatePart(s.date) = DatePart(now))
  IN IF today = <<>> THEN <<>> ELSE <<today[1]>>

\* today's last set, else the last set of the newest previous session; the
\* empty sequence stands for null
getPreFillValues(exercise) ==
  LET today == todaySession(exercise)
      previousSessions ==
        getExercisePreviousSessions(exercise, PreviousSessionsShown)
  IN IF today # <<>> /\ Len(today[1].sets) > 0
     THEN <<[reps |-> today[1].sets[Len(today[1].sets)].reps,
             weight |-> today[1].sets[Len(today[1].sets)].weight]>>
     ELSE IF Len(previousSessions) > 0 /\ Len(previousSessions[1].sets) > 0
     THEN <<[reps |-> previousSessions[1].sets[Len(previousSessions[1].sets)].reps,
             weight |-> previousSessions[1].sets[Len(previousSessions[1].sets)].weight]>>
     ELSE <<>>

\* the reps and weight states of a SetLogger mounted on the exercise
InitialForm(exercise) ==
  LET initialPreFill == getPreFillValues(exercise)
  IN IF initialPreFill = <<>> THEN [reps |-> DefaultReps, weight |-> 0]
     ELSE initialPreFill[1]

\* the reps input: Math.max(1, parseInt(e.target.value) || 1)
handleRepsChange_noFloor(text) ==
  LET parsed == parseInt(text)
  IN IF parsed = <<>> \/ parsed = <<0>> THEN 1 ELSE parsed[1]

handleRepsChange(text) ==
  LET parsed == parseInt(text)
  IN Max(1, IF parsed = <<>> \/ parsed = <<0>> THEN 1 ELSE parsed[1])

adjustReps(prevReps, delta) == Max(1, prevReps + delta)

adjustWeight(prevWeight, delta) == Max(0, toFixed1(prevWeight + delta))

\* the weight state after the text value is typed
handleWeightChange(prevWeight, value) ==
  LET parsed == parseFloat(ReplaceComma(value))
  IN IF parsed # <<>> /\ parsed[1] >= 0 THEN parsed[1]
     ELSE IF value = EmptyText \/ value = Numeral(0) THEN 0
     ELSE prevWeight

\* the set Repeat Last Set logs: today's last set, else the first set of the
\* newest previous session; the empty sequence when it logs nothing
handleRepeatLastSet(exercise) ==
  LET today == todaySession(exercise)
      previousSessions ==
        getExercisePreviousSessions(exercise, PreviousSessionsShown)
  IN IF today # <<>> /\ Len(today[1].sets) > 0
     THEN <<[reps |-> today[1].sets[Len(today[1].sets)].reps,
             weight |-> today[1].sets[Len(today[1].sets)].weight]>>
     ELSE IF Len(previousSessions) > 0 /\ Len(previousSessions[1].sets) > 0
     THEN <<[reps |-> previousSessions[1].sets[1].reps,
             weight |-> previousSessions[1].sets[1].weight]>>
     ELSE <<>>

\* !!(todaySession?.sets.length || previousSessions[0]?.sets.length)
hasRepeatableSet(exercise) ==
  LET today == todaySession(exercise)
      previousSessions ==
        getExercisePreviousSessions(exercise, PreviousSessionsShown)
  IN \/ today # <<>> /\ Len(today[1].sets) > 0
     \/ Len(previousSessions) > 0 /\ Len(previousSessions[1].sets) > 0

\* the editor of handleStartEdit
handleStartEdit(exerciseId, sessionId, setIndex, set) ==
  [exerciseId |-> exerciseId, sessionId |-> sessionId, setIndex |-> setIndex,
   reps |-> set.reps, weight |-> formatWeight(set.weight)]

\* the set handleSaveEdit passes to onUpdateSet; the empty sequence when it
\* returns without saving
handleSaveEdit(editing) ==
  LET weightNum == parseFloat(ReplaceComma(editing.weight))
  IN IF weightNum = <<>> \/ weightNum[1] < 0 \/ editing.reps < 1 THEN <<>>
     ELSE <<[reps |-> editing.reps, weight |-> weightNum[1]]>>

\* texts typed into a reps input: -3, 0, 2.7, 5 and the empty text
RepsTexts ==
  {Numeral(-300), Numeral(0), Numeral(270), Numeral(500), EmptyText}

\* texts typed into a weight input: -5, 0, 1.27, 7,5, abc and the empty text
WeightTexts ==
  {Numeral(-500), Numeral(0), Numeral(127), CommaNumeral(750), Letters,
   EmptyText}

----------------------------------------------------------------------------
(* The hook after construction: loadData() returns the stored snapshot.    *)
(* Seeds are snapshots earlier runs of the application leave in storage.   *)

ES(id, t, sets) == [id |-> id, date |-> t, sets |-> sets]

WS(id, t, end, ids, dwarf) ==
  [id |-> id, startTime |-> t, endTime |-> end, exerciseIds |-> ids,
   isDwarfWorkout |-> dwarf]

EX(id, category, sessions) ==
  [id |-> id, name |-> "n", category |-> category, sessions |-> sessions]

S1 == MkSet(1, 0, 0)

S2 == MkSet(2, 5, 0)

\* first run: exercises, nothing logged
SeedFresh ==
  [exercises |-> <<EX(1, "Push", <<>>), EX(2, "Pull", <<>>)>>,
   workoutSessions |-> <<>>]

\* in the middle of a workout that lists exercise 1 only; exercise 2 has
\* sets on the same day
SeedActive ==
  [exercises |-> <<EX(1, "Push", <<ES(4, 0, <<S1, S2>>)>>),
                   EX(2, "Pull", <<ES(5, 1, <<S2>>)>>)>>,
   workoutSessions |-> <<WS(3, 0, <<>>, <<1>>, FALSE)>>]

\* a completed workout on day 0 and one on day 1, both listing exercise 1
SeedHistory ==
  [exercises |-> <<EX(1, "Push", <<ES(4, 0, <<S1>>), ES(7, 2, <<S2, S1>>)>>),
                   EX(2, "Push", <<ES(5, 1, <<S1>>)>>)>>,
   workoutSessions |-> <<WS(3, 0, <<1>>, <<1, 2>>, FALSE),
                         WS(6, 2, <<3>>, <<1>>, FALSE)>>]

Seeds == {[d |-> SeedFresh, now |-> 0, nextId |-> 3],
          [d |-> SeedActive, now |-> 1, nextId |-> 6],
          [d |-> SeedHistory, now |-> 3, nextId |-> 8]}

----------------------------------------------------------------------------
(* Persistence (utils/storage) *)

\* the default data set of a first run: exercises with history, no workout
\* sessions
bootstrapData ==
  [exercises |-> <<EX(1, "Push", <<ES(2, 0, <<S1>>)>>)>>,
   workoutSessions |-> <<>>]

\* nothing is written
saveData_never(st, canWrite, d) == st

\* localStorage.setItem(STORAGE_KEY, JSON.stringify(data)) in a try block:
\* the item after the call
saveData(st, canWrite, d) == IF canWrite THEN JSONstringify(d, 0) ELSE st

\* the default is returned without being written
loadData_noWrite(st, canWrite) ==
  IF st.k = "text" THEN [value |-> st.json, store |-> st]
  ELSE [value |-> ToJSON(bootstrapData), store |-> st]

\* the value returned and the item after the call.  if (stored) fails for
\* no item and for the empty string; JSON.parse throws on any other text
\* that is no JSON, which the catch block swallows
loadData(st, canWrite) ==
  IF st.k = "text" THEN [value |-> st.json, store |-> st]
  ELSE [value |-> ToJSON(bootstrapData),
        store |-> saveData(st, canWrite, bootstrapData)]

\* JavaScript truthiness of a parsed value
Truthy(j) ==
  CASE j.k = "null" -> FALSE
    [] j.k = "bool" -> j.v
    [] j.k = "num" -> j.v # 0
    [] j.k = "str" -> j.v # ""
    [] OTHER -> TRUE

\* any parsed object is accepted
importData_anyObject(text) ==
  LET parsed == JSONparse(text)
  IN IF parsed # <<>> /\ parsed[1].k = "obj" THEN parsed ELSE <<>>

\* the parsed value in a one-element sequence, the empty sequence for null
importData(text) ==
  LET parsed == JSONparse(text)
  IN IF /\ parsed # <<>>
        /\ Truthy(parsed[1])
        /\ HasMember(parsed[1], "exercises")
        /\ parsed[1].v.exercises.k = "arr"
     THEN parsed
     ELSE <<>>

\* the text exportData hands to the clipboard or the download
exportData(d) == JSONstringify(d, 2)

\* useEffect(() => saveData(data), [data]) after a render with a new snapshot
SaveEffect == store' = saveData(store, writable, data') /\ UNCHANGED writable

NoSave == UNCHANGED <<store, writable>>

\* the hook was constructed on what the store holds and the effect has run
InitStore == writable = TRUE /\ store = JSONstringify(data, 0)

InitUI ==
  /\ tab = "dashboard"
  /\ sel = 0
  /\ ret = 0
  /\ detail = 0
  /\ past = 0
  /\ expanded = {}
  /\ reps = DefaultReps
  /\ weight = 0
  /\ editingSet = <<>>

Init ==
  /\ \E seed \in Seeds :
       /\ data = seed.d
       /\ now = seed.now
       /\ nextId = seed.nextId
  /\ steps = 0
  /\ tz = 0
  /\ InitUI
  /\ logged = {}
  /\ last = Op("init", 0, 0, 0)
  /\ prev = data
  /\ InitStore

----------------------------------------------------------------------------
(* Actions of the mutation layer: the entry points of useWorkoutData       *)
(* called in any order, with ids that resolve or not.                      *)

Step == steps < MaxSteps /\ steps' = steps + 1 /\ prev' = data

Frame == UNCHANGED <<tz, logged>> /\ UNCHANGED uiVars /\ SaveEffect

\* the clock advances by half a day
Tick ==
  /\ Step
  /\ now' = now + 1
  /\ last' = Op("tick", 0, 0, 0)
  /\ UNCHANGED <<data, nextId>>
  /\ UNCHANGED <<tz, logged>> /\ UNCHANGED uiVars /\ NoSave

AddExercise ==
  /\ Step
  /\ \E name \in Names, category \in Categories :
       data' = addExercise(data, nextId, name, category)
  /\ nextId' = nextId + 1
  /\ last' = Op("addExercise", nextId, 0, 0)
  /\ UNCHANGED now
  /\ Frame

DeleteExercise ==
  /\ Step
  /\ \E id \in ExerciseIds(data) \cup {UnknownId} :
       /\ data' = deleteExercise(data, id)
       /\ last' = Op("deleteExercise", id, 0, 0)
  /\ UNCHANGED <<now, nextId>>
  /\ Frame

\* addSetToExercise(exerciseId, set, date?): date || new Date()
AddSetToExercise ==
  /\ Step
  /\ \E id \in ExerciseIds(data) \cup {UnknownId}, set \in SetInputs,
        t \in {now, 0} :
       /\ data' = addSetToExercise(data, id, set, t, nextId)
       /\ last' = Op("addSetToExercise", id, t, set)
  /\ nextId' = IF \E s \in SessionsOf(data') : s.id = nextId
               THEN nextId + 1 ELSE nextId
  /\ UNCHANGED now
  /\ Frame

DeleteSet ==
  /\ Step
  /\ \E id \in ExerciseIds(data) \cup {UnknownId},
        sid \in {s.id : s \in SessionsOf(data)} \cup {UnknownId},
        idx \in 0..2 :
       /\ data' = deleteSet(data, id, sid, idx)
       /\ last' = Op("deleteSet", id, sid, idx)
  /\ UNCHANGED <<now, nextId>>
  /\ Frame

StartWorkoutSession ==
  /\ Step
  /\ data' = startWorkoutSession(data, nextId, now)
  /\ nextId' = nextId + 1
  /\ last' = Op("startWorkoutSession", nextId, 0, 0)
  /\ UNCHANGED now
  /\ Frame

EndWorkoutSession ==
  /\ Step
  /\ \E sid \in WorkoutSessionIds(data) \cup {UnknownId} :
       /\ data' = endWorkoutSession(data, sid, now)
       /\ last' = Op("endWorkoutSession", sid, 0, 0)
  /\ UNCHANGED <<now, nextId>>
  /\ Frame

DeleteWorkoutSession ==
  /\ Step
  /\ \E sid \in WorkoutSessionIds(data) \cup {UnknownId} :
       /\ data' = deleteWorkoutSession(data, sid)
       /\ last' = Op("deleteWorkoutSession", sid, 0, 0)
       \* if (!sessionToDelete) return prev: no new snapshot, no effect
       /\ IF sid \in WorkoutSessionIds(data) THEN SaveEffect ELSE NoSave
  /\ UNCHANGED <<now, nextId, tz, logged>>
  /\ UNCHANGED uiVars

AddExerciseToWorkoutSession ==
  /\ Step
  /\ \E sid \in WorkoutSessionIds(data) \cup {UnknownId},
        id \in ExerciseIds(data) \cup {UnknownId} :
       /\ data' = addExerciseToWorkoutSession(data, sid, id)
       /\ last' = Op("addExerciseToWorkoutSession", sid, id, 0)
  /\ UNCHANGED <<now, nextId>>
  /\ Frame

\* deleteSessionsFromDate(dateStr) = removeSessionsFromDate(prev, dateStr)
DeleteSessionsFromDate ==
  /\ Step
  /\ \E t \in {s.date : s \in SessionsOf(data)} \cup {now} :
       /\ data' = removeSessionsFromDate(data, t)
       /\ last' = Op("deleteSessionsFromDate", t, 0, 0)
  /\ UNCHANGED <<now, nextId>>
  /\ Frame

Next ==
  \/ Tick
  \/ AddExercise
  \/ DeleteExercise
  \/ AddSetToExercise
  \/ DeleteSet
  \/ StartWorkoutSession
  \/ EndWorkoutSession
  \/ DeleteWorkoutSession
  \/ AddExerciseToWorkoutSession
  \/ DeleteSessionsFromDate

Spec == Init /\ [][Next]_vars

----------------------------------------------------------------------------
(* Import: Dashboard.handleImport hands whatever importData accepts to     *)
(* replaceData.  importData accepts every JSON value with an array-valued  *)
(* exercises field, so an installed snapshot need not satisfy what the     *)
(* mutation layer itself maintains.                                        *)

\* an exercise with a session without sets
ImportEmptySession ==
  [exercises |-> <<EX(1, "Push", <<ES(4, 0, <<>>), ES(5, 2, <<S1>>),
                                   ES(7, 4, <<S1, S2>>)>>),
                   EX(2, "Pull", <<>>)>>,
   workoutSessions |-> <<WS(3, 0, <<1>>, <<1>>, FALSE)>>]

\* two workout sessions without endTime
ImportTwoActive ==
  [exercises |-> <<EX(1, "Push", <<ES(4, 0, <<S1>>)>>)>>,
   workoutSessions |-> <<WS(3, 0, <<>>, <<1>>, FALSE),
                         WS(6, 1, <<>>, <<>>, FALSE)>>]

ImportSnapshots == {ImportEmptySession, ImportTwoActive}

\* ids of the imported snapshots lie below this one
ImportIdLimit == 8

ReplaceData ==
  /\ Step
  /\ \E newData \in ImportSnapshots :
       data' = replaceData(data, newData)
  /\ nextId' = Max(nextId, ImportIdLimit)
  /\ last' = Op("replaceData", 0, 0, 0)
  /\ UNCHANGED now
  /\ Frame

NextImport == Next \/ ReplaceData

SpecImport == Init /\ [][NextImport]_vars

----------------------------------------------------------------------------
(* Presentation layer: App (activeTab, selectedExercise,                   *)
(* returnToExerciseId) and Workout (_selectedExerciseId,                   *)
(* selectedPastWorkoutId).  0 stands for null.  The Workout component is   *)
(* mounted while the workout tab shows; its local state is lost when it    *)
(* unmounts.                                                               *)

\* initialExerciseId ?? _selectedExerciseId
SelectedExerciseId == IF ret # 0 THEN ret ELSE sel

\* completed sessions, the ones the past-workout cards are drawn for
PastSessionIds(d) ==
  {s.id : s \in {x \in Range(d.workoutSessions) : x.endTime # <<>>}}

\* which screen the render shows
View ==
  IF tab = "dashboard" THEN "dashboard"
  ELSE IF tab = "exercises"
    THEN (IF detail # 0 THEN "exerciseDetail" ELSE "exercises")
  ELSE IF past # 0 /\ past \in PastSessionIds(data) THEN "workoutDetail"
  ELSE IF SelectedExerciseId \in ExerciseIds(data) THEN "setLogger"
  ELSE IF getActiveWorkoutSession(data) = <<>> THEN "start"
  ELSE "picker"

\* the Start Workout button is drawn on every screen of the workout tab
CanStart_anyView == tab = "workout"

\* the Start Workout button is drawn only when no session is active
CanStart == View = "start"

\* the Exercises screen drawn with the categories in shown expanded:
\* formatLastSession calls getExerciseLastSession on the exercise objects of
\* the snapshot
RenderExercises(d, shown) ==
  [d EXCEPT !.exercises =
     [i \in DOMAIN d.exercises |->
        IF d.exercises[i].category \in shown
        THEN [d.exercises[i] EXCEPT
                !.sessions = getExerciseLastSession(d.exercises[i]).sessions]
        ELSE d.exercises[i]]]

UIStep == steps < MaxUISteps /\ steps' = steps + 1 /\ prev' = data

NoData == UNCHANGED <<data, nextId, now, tz, logged>> /\ NoSave

\* a SetLogger that mounts takes reps and weight from the exercise it is
\* given; the states of a SetLogger that is not mounted are held at their
\* defaults.  WorkoutDetail mounts with no editor.
FormEffect ==
  /\ IF View' = "setLogger"
     THEN IF View # "setLogger"
          THEN LET form == InitialForm(ExerciseById(data, SelectedExerciseId))'
               IN reps' = form.reps /\ weight' = form.weight
          ELSE UNCHANGED <<reps, weight>>
     ELSE reps' = DefaultReps /\ weight' = 0
  /\ IF View' = "workoutDetail" /\ View = "workoutDetail"
     THEN UNCHANGED editingSet
     ELSE editingSet' = <<>>

\* Navigation.onTabChange
UINavigate ==
  /\ UIStep
  /\ \E t \in {"dashboard", "exercises", "workout"} :
       /\ t # tab \/ View = "exerciseDetail"
       /\ tab' = t
       /\ IF View = "exerciseDetail"
          THEN detail' = 0 /\ ret' = 0
          ELSE UNCHANGED <<detail, ret>>
       /\ IF t # "workout" THEN sel' = 0 /\ past' = 0
          ELSE UNCHANGED <<sel, past>>
  /\ last' = Op("navigate", 0, 0, 0)
  /\ NoData
  /\ expanded' = {}
  /\ FormEffect

\* the clock advances by half a day while the application is open
UITick ==
  /\ UIStep
  /\ now' = now + 1
  /\ last' = Op("tick", 0, 0, 0)
  /\ UNCHANGED <<data, nextId, tz, logged>>
  /\ NoSave
  /\ UNCHANGED uiVars

\* Exercises: add an exercise
UIAddExercise ==
  /\ UIStep
  /\ View = "exercises"
  /\ Len(data.exercises) < MaxExercises
  /\ \E name \in Names, category \in Categories :
       \* the new exercise's category is expanded; the render that follows
       \* draws the expanded categories
       /\ expanded' = expanded \cup {category}
       /\ data' = RenderExercises(addExercise(data, nextId, name, category),
                                  expanded')
  /\ nextId' = nextId + 1
  /\ last' = Op("addExercise", nextId, 0, 0)
  /\ UNCHANGED <<now, tz, logged>>
  /\ SaveEffect
  /\ UNCHANGED <<tab, sel, ret, detail, past>>
  /\ FormEffect

\* Exercises.toggleCategory: no entry point of the hook is called; the
\* render draws formatLastSession for the exercises of expanded categories
UIToggleCategory ==
  /\ UIStep
  /\ View = "exercises"
  /\ \E category \in {e.category : e \in Range(data.exercises)} :
       /\ expanded' = IF category \in expanded THEN expanded \ {category}
                      ELSE expanded \cup {category}
       /\ data' = RenderExercises(data, expanded')
       /\ last' = Op("toggleCategory", category, 0, 0)
  /\ UNCHANGED <<tab, sel, ret, detail, past>>
  /\ UNCHANGED <<nextId, now, tz, logged>>
  /\ NoSave
  /\ FormEffect

\* Exercises: open an exercise
UIOpenExercise ==
  /\ UIStep
  /\ View = "exercises"
  /\ \E id \in ExerciseIds(data) :
       /\ ExerciseById(data, id).category \in expanded
       /\ detail' = id
  /\ last' = Op("openExercise", 0, 0, 0)
  /\ UNCHANGED <<tab, sel, ret, past>>
  /\ NoData
  /\ expanded' = {}
  /\ FormEffect

\* ExerciseDetail: back
UIDetailBack ==
  /\ UIStep
  /\ View = "exerciseDetail"
  /\ detail' = 0
  /\ IF ret # 0 THEN tab' = "workout" ELSE tab' = tab
  /\ last' = Op("detailBack", 0, 0, 0)
  /\ UNCHANGED <<sel, ret, past>>
  /\ NoData
  /\ UNCHANGED expanded
  /\ FormEffect

\* ExerciseDetail: delete the exercise
UIDeleteExercise ==
  /\ UIStep
  /\ View = "exerciseDetail"
  /\ data' = deleteExercise(data, detail)
  /\ detail' = 0
  /\ ret' = 0
  /\ last' = Op("deleteExercise", detail, 0, 0)
  /\ UNCHANGED <<tab, sel, past, nextId, now, tz, logged>>
  /\ SaveEffect
  /\ UNCHANGED expanded
  /\ FormEffect

\* Dashboard: delete the data of a date
UICleanupDate ==
  /\ UIStep
  /\ View = "dashboard"
  /\ \E t \in {s.date : s \in SessionsOf(data)} \cup {now} :
       /\ data' = removeSessionsFromDate(data, t)
       /\ last' = Op("deleteSessionsFromDate", t, 0, 0)
  /\ UNCHANGED <<nextId, now, tz, logged>>
  /\ SaveEffect
  /\ UNCHANGED uiVars

\* Workout: Start Workout
UIStartWorkout ==
  /\ UIStep
  /\ tab = "workout"
  /\ CanStart
  /\ data' = startWorkoutSession(data, nextId, now)
  /\ nextId' = nextId + 1
  /\ last' = Op("startWorkoutSession", nextId, 0, 0)
  /\ UNCHANGED <<now, tz, logged>>
  /\ SaveEffect
  /\ UNCHANGED uiVars

\* Workout: End, on the active session
UIEndWorkout ==
  /\ UIStep
  /\ View = "picker"
  /\ LET activeSession == getActiveWorkoutSession(data)[1]
     IN /\ data' = endWorkoutSession(data, activeSession.id, now)
        /\ last' = Op("endWorkoutSession", activeSession.id, 0, 0)
  /\ UNCHANGED <<nextId, now, tz, logged>>
  /\ SaveEffect
  /\ UNCHANGED uiVars

\* Workout.handleSelectExercise
UISelectExercise ==
  /\ UIStep
  /\ View = "picker"
  /\ \E id \in ExerciseIds(data) :
       LET activeSession == getActiveWorkoutSession(data)
       IN /\ sel' = id
          /\ data' = IF activeSession # <<>>
                     THEN addExerciseToWorkoutSession(data, activeSession[1].id, id)
                     ELSE data
          /\ last' = Op("addExerciseToWorkoutSession",
                        IF activeSession # <<>> THEN activeSession[1].id ELSE 0,
                        id, 0)
  /\ UNCHANGED <<tab, ret, detail, past, nextId, now, tz, logged>>
  /\ SaveEffect
  /\ UNCHANGED expanded
  /\ FormEffect

\* SetLogger.handleAddSet (Log Set) and Workout.handleAddSet
UILogSet ==
  /\ UIStep
  /\ View = "setLogger"
  /\ LET set == MkSet(reps, weight, nextId)
         activeSession == getActiveWorkoutSession(data)
     IN /\ data' = addSetToExercise(data, SelectedExerciseId, set, now, nextId + 1)
        /\ logged' = logged \cup
             {[tag |-> nextId, ex |-> SelectedExerciseId,
               ws |-> IF activeSession = <<>> THEN 0 ELSE activeSession[1].id]}
        /\ last' = Op("addSetToExercise", SelectedExerciseId, now, set)
  /\ nextId' = nextId + 2
  /\ UNCHANGED <<now, tz>>
  /\ SaveEffect
  /\ UNCHANGED uiVars

\* SetLogger: back
UILoggerBack ==
  /\ UIStep
  /\ View = "setLogger"
  /\ sel' = 0
  /\ ret' = 0
  /\ last' = Op("loggerBack", 0, 0, 0)
  /\ UNCHANGED <<tab, detail, past>>
  /\ NoData
  /\ UNCHANGED expanded
  /\ FormEffect

\* App.handleViewExerciseFromWorkout, from SetLogger
UIViewExercise ==
  /\ UIStep
  /\ View = "setLogger"
  /\ detail' = SelectedExerciseId
  /\ tab' = "exercises"
  /\ ret' = SelectedExerciseId
  /\ sel' = 0
  /\ past' = 0
  /\ last' = Op("viewExercise", 0, 0, 0)
  /\ NoData
  /\ UNCHANGED expanded
  /\ FormEffect

\* a past-workout card is drawn on the start screen and on the picker
PastCards == IF View \in {"start", "picker"} THEN PastSessionIds(data) ELSE {}

\* past-workout card: open the workout detail
UIOpenPastWorkout ==
  /\ UIStep
  /\ \E id \in PastCards :
       /\ ~WorkoutById(data, id).isDwarfWorkout
       /\ past' = id
  /\ last' = Op("openPastWorkout", 0, 0, 0)
  /\ UNCHANGED <<tab, sel, ret, detail>>
  /\ NoData
  /\ UNCHANGED expanded
  /\ FormEffect

\* Workout.handleDeleteWorkoutSession, from a card or from the detail
UIDeleteWorkout ==
  /\ UIStep
  /\ \E id \in PastCards \cup (IF View = "workoutDetail" THEN {past} ELSE {}) :
       /\ data' = deleteWorkoutSession(data, id)
       /\ past' = IF past = id THEN 0 ELSE past
       /\ last' = Op("deleteWorkoutSession", id, 0, 0)
  /\ UNCHANGED <<tab, sel, ret, detail, nextId, now, tz, logged>>
  /\ SaveEffect
  /\ UNCHANGED expanded
  /\ FormEffect

\* WorkoutDetail: back
UIPastBack ==
  /\ UIStep
  /\ View = "workoutDetail"
  /\ past' = 0
  /\ last' = Op("pastBack", 0, 0, 0)
  /\ UNCHANGED <<tab, sel, ret, detail>>
  /\ NoData
  /\ UNCHANGED expanded
  /\ FormEffect

\* WorkoutDetail.handleDeleteSet on a set of exercisesWithSessions
UIDeleteSet ==
  /\ UIStep
  /\ View = "workoutDetail"
  /\ LET S == WorkoutById(data, past)
     IN \E id \in Range(S.exerciseIds) \cap ExerciseIds(data) :
          LET on == SelectSeq(ExerciseById(data, id).sessions,
                      LAMBDA s : DatePart(s.date) = DatePart(S.startTime))
          IN /\ on # <<>>
             /\ \E idx \in 0..(Len(on[1].sets) - 1) :
                  /\ data' = deleteSet(data, id, on[1].id, idx)
                  /\ last' = Op("deleteSet", id, on[1].id, idx)
  /\ UNCHANGED <<nextId, now, tz, logged>>
  /\ SaveEffect
  /\ UNCHANGED uiVars

\* SetLogger: a text is typed into the reps input
UITypeReps ==
  /\ UIStep
  /\ View = "setLogger"
  /\ \E text \in RepsTexts :
       /\ reps' = handleRepsChange(text)
       /\ last' = Op("typeReps", text, 0, 0)
  /\ NoData
  /\ UNCHANGED <<tab, sel, ret, detail, past, expanded, weight, editingSet>>

\* SetLogger.adjustReps, from the - and + buttons
UIAdjustReps ==
  /\ UIStep
  /\ View = "setLogger"
  /\ \E delta \in {-1, 1} :
       /\ reps' = adjustReps(reps, delta)
       /\ last' = Op("adjustReps", delta, 0, 0)
  /\ NoData
  /\ UNCHANGED <<tab, sel, ret, detail, past, expanded, weight, editingSet>>

\* SetLogger.handleWeightChange
UITypeWeight ==
  /\ UIStep
  /\ View = "setLogger"
  /\ \E text \in WeightTexts :
       /\ weight' = handleWeightChange(weight, text)
       /\ last' = Op("typeWeight", text, 0, 0)
  /\ NoData
  /\ UNCHANGED <<tab, sel, ret, detail, past, expanded, reps, editingSet>>

\* SetLogger.adjustWeight, from the - and + buttons
UIAdjustWeight ==
  /\ UIStep
  /\ View = "setLogger"
  /\ \E delta \in {-WeightStep, WeightStep} :
       /\ weight' = adjustWeight(weight, delta)
       /\ last' = Op("adjustWeight", delta, 0, 0)
  /\ NoData
  /\ UNCHANGED <<tab, sel, ret, detail, past, expanded, reps, editingSet>>

\* SetLogger.handleRepeatLastSet and Workout.handleAddSet; the button is
\* drawn when hasRepeatableSet
UIRepeatLastSet ==
  /\ UIStep
  /\ View = "setLogger"
  /\ hasRepeatableSet(ExerciseById(data, SelectedExerciseId))
  /\ LET lastSet == handleRepeatLastSet(ExerciseById(data, SelectedExerciseId))
         set == MkSet(lastSet[1].reps, lastSet[1].weight, nextId)
         activeSession == getActiveWorkoutSession(data)
     IN /\ data' = addSetToExercise(data, SelectedExerciseId, set, now, nextId + 1)
        /\ logged' = logged \cup
             {[tag |-> nextId, ex |-> SelectedExerciseId,
               ws |-> IF activeSession = <<>> THEN 0 ELSE activeSession[1].id]}
        /\ last' = Op("repeatLastSet", SelectedExerciseId, now, set)
  /\ nextId' = nextId + 2
  /\ UNCHANGED <<now, tz>>
  /\ SaveEffect
  /\ UNCHANGED uiVars

\* WorkoutDetail.handleStartEdit on a set of exercisesWithSessions
UIStartEdit ==
  /\ UIStep
  /\ View = "workoutDetail"
  /\ LET S == WorkoutById(data, past)
     IN \E id \in Range(S.exerciseIds) \cap ExerciseIds(data) :
          LET on == SelectSeq(ExerciseById(data, id).sessions,
                      LAMBDA s : DatePart(s.date) = DatePart(S.startTime))
          IN /\ on # <<>>
             /\ \E idx \in 0..(Len(on[1].sets) - 1) :
                  /\ editingSet' =
                       <<handleStartEdit(id, on[1].id, idx, on[1].sets[idx + 1])>>
                  /\ last' = Op("startEdit", id, on[1].id, idx)
  /\ NoData
  /\ UNCHANGED <<tab, sel, ret, detail, past, expanded, reps, weight>>

\* WorkoutDetail: a text is typed into the reps input of the editor
UIEditReps ==
  /\ UIStep
  /\ View = "workoutDetail"
  /\ editingSet # <<>>
  /\ \E text \in RepsTexts :
       /\ editingSet' = <<[editingSet[1] EXCEPT !.reps = handleRepsChange(text)]>>
       /\ last' = Op("editReps", text, 0, 0)
  /\ NoData
  /\ UNCHANGED <<tab, sel, ret, detail, past, expanded, reps, weight>>

\* WorkoutDetail: a text is typed into the weight input of the editor
UIEditWeight ==
  /\ UIStep
  /\ View = "workoutDetail"
  /\ editingSet # <<>>
  /\ \E text \in WeightTexts :
       /\ editingSet' = <<[editingSet[1] EXCEPT !.weight = text]>>
       /\ last' = Op("editWeight", text, 0, 0)
  /\ NoData
  /\ UNCHANGED <<tab, sel, ret, detail, past, expanded, reps, weight>>

\* WorkoutDetail.handleSaveEdit: an editor it does not accept stays open
UISaveEdit ==
  /\ UIStep
  /\ View = "workoutDetail"
  /\ editingSet # <<>>
  /\ LET set == handleSaveEdit(editingSet[1])
     IN IF set = <<>>
        THEN UNCHANGED <<data, editingSet>>
        ELSE /\ data' = updateSet(data, editingSet[1].exerciseId,
                                  editingSet[1].sessionId,
                                  editingSet[1].setIndex, set[1])
             /\ editingSet' = <<>>
  /\ last' = Op("saveEdit", editingSet[1].exerciseId, editingSet[1].sessionId,
                editingSet[1].setIndex)
  /\ UNCHANGED <<nextId, now, tz, logged>>
  /\ SaveEffect
  /\ UNCHANGED <<tab, sel, ret, detail, past, expanded, reps, weight>>

\* a workout is in progress and the set logger is open on exercise 1
UISeedLogging ==
  [d |-> [exercises |-> <<EX(1, "Push", <<>>), EX(2, "Pull", <<>>)>>,
          workoutSessions |-> <<WS(3, 1, <<>>, <<1>>, FALSE)>>],
   now |-> 1, nextId |-> 4, tab |-> "workout", sel |-> 1, logged |-> {}]

\* a workout listing exercise 1 was completed this morning, set 4 logged in
\* it; a second workout has just been started
UISeedSecond ==
  [d |-> [exercises |-> <<EX(1, "Push", <<ES(5, 0, <<MkSet(1, 0, 4)>>)>>),
                          EX(2, "Pull", <<>>)>>,
          workoutSessions |-> <<WS(3, 0, <<0>>, <<1>>, FALSE),
                                WS(6, 1, <<>>, <<>>, FALSE)>>],
   now |-> 1, nextId |-> 7, tab |-> "workout", sel |-> 0,
   logged |-> {[tag |-> 4, ex |-> 1, ws |-> 3]}]

UISeedFresh ==
  [d |-> SeedFresh, now |-> 1, nextId |-> 3, tab |-> "dashboard", sel |-> 0,
   logged |-> {}]

\* two completed workouts on different days, the dashboard showing
UISeedHistory ==
  [d |-> SeedHistory, now |-> 3, nextId |-> 8, tab |-> "dashboard",
   sel |-> 0, logged |-> {}]

UISeeds == {UISeedFresh, UISeedLogging, UISeedSecond, UISeedHistory}

InitUIFlow ==
  /\ \E seed \in UISeeds :
       /\ data = seed.d
       /\ now = seed.now
       /\ nextId = seed.nextId
       /\ tab = seed.tab
       /\ sel = seed.sel
       /\ logged = seed.logged
  /\ ret = 0
  /\ detail = 0
  /\ past = 0
  /\ expanded = {}
  /\ editingSet = <<>>
  /\ LET form == IF View = "setLogger"
                 THEN InitialForm(ExerciseById(data, SelectedExerciseId))
                 ELSE [reps |-> DefaultReps, weight |-> 0]
     IN reps = form.reps /\ weight = form.weight
  /\ steps = 0
  /\ tz = 0
  /\ last = Op("init", 0, 0, 0)
  /\ prev = data
  /\ InitStore

NextUI ==
  \/ UINavigate
  \/ UITick
  \/ UIAddExercise
  \/ UIToggleCategory
  \/ UIOpenExercise
  \/ UIDetailBack
  \/ UIDeleteExercise
  \/ UICleanupDate
  \/ UIStartWorkout
  \/ UIEndWorkout
  \/ UISelectExercise
  \/ UILogSet
  \/ UILoggerBack
  \/ UIViewExercise
  \/ UIOpenPastWorkout
  \/ UIDeleteWorkout
  \/ UIPastBack
  \/ UIDeleteSet

SpecUI == InitUIFlow /\ [][NextUI]_vars

----------------------------------------------------------------------------
(* Mutations issued back to back.  setData(updater) queues the updater;    *)
(* the next render runs the queued updaters in the order of the calls,     *)
(* each on the state the one before it returned, and the state the render  *)
(* shows is the result of the last.  A command is an entry point with its  *)
(* arguments; the id generateId() returns inside an updater is fresh and   *)
(* is drawn when the command is issued.                                    *)

\* an updater that reads the snapshot of the render the call was made from
updater_fromRendered(cmd, rendered, state) ==
  CASE cmd.op = "addSetToExercise" ->
         addSetToExercise(rendered, cmd.a, cmd.c[1], cmd.b, cmd.c[1].tag + 1)
    [] cmd.op = "addExerciseToWorkoutSession" ->
         addExerciseToWorkoutSession(rendered, cmd.a, cmd.b)
    [] cmd.op = "endWorkoutSession" -> endWorkoutSession(rendered, cmd.a, cmd.b)
    [] cmd.op = "deleteExercise" -> deleteExercise(rendered, cmd.a)

\* setData(prev => ...): the updater of the command, a function of the
\* state the queue has produced so far
updater(cmd, rendered, state) ==
  CASE cmd.op = "addSetToExercise" ->
         addSetToExercise(state, cmd.a, cmd.c[1], cmd.b, cmd.c[1].tag + 1)
    [] cmd.op = "addExerciseToWorkoutSession" ->
         addExerciseToWorkoutSession(state, cmd.a, cmd.b)
    [] cmd.op = "endWorkoutSession" -> endWorkoutSession(state, cmd.a, cmd.b)
    [] cmd.op = "deleteExercise" -> deleteExercise(state, cmd.a)

\* the render after the calls: the queued updaters run in order
RECURSIVE processQueue(_, _, _)
processQueue(queue, rendered, state) ==
  IF queue = <<>> THEN state
  ELSE processQueue(Tail(queue), rendered,
                    updater(Head(queue), rendered, state))

\* the calls a handler can make on the snapshot d it was rendered with; a
\* logged set carries the tag given; c holds the set of the call, if any
Commands(d, tag) ==
  {Op("addSetToExercise", id, now, <<MkSet(1, 0, tag)>>) : id \in ExerciseIds(d)}
    \cup {Op("addExerciseToWorkoutSession", sid, id, <<>>) :
            sid \in WorkoutSessionIds(d), id \in ExerciseIds(d)}
    \cup {Op("endWorkoutSession", sid, now, <<>>) : sid \in WorkoutSessionIds(d)}
    \cup {Op("deleteExercise", id, 0, <<>>) : id \in ExerciseIds(d)}

\* two calls are made before the next render
IssueTwo ==
  /\ Step
  /\ \E first \in Commands(data, nextId), second \in Commands(data, nextId + 2) :
       /\ data' = processQueue(<<first, second>>, data, data)
       /\ last' = Op("issueTwo", first, second, 0)
  /\ nextId' = nextId + 4
  /\ UNCHANGED now
  /\ Frame

\* the hook constructed in the middle of a workout
InitBatch ==
  /\ data = SeedActive
  /\ now = 1
  /\ nextId = 6
  /\ steps = 0
  /\ tz = 0
  /\ InitUI
  /\ logged = {}
  /\ last = Op("init", 0, 0, 0)
  /\ prev = data
  /\ InitStore

NextBatch == Tick \/ IssueTwo

SpecBatch == InitBatch /\ [][NextBatch]_vars

----------------------------------------------------------------------------
(* The set logger and the set editor: a workout in progress with the       *)
(* logger open, and a completed workout whose detail can be opened.        *)

NextLogger ==
  \/ UITick
  \/ UISelectExercise
  \/ UITypeReps
  \/ UIAdjustReps
  \/ UITypeWeight
  \/ UIAdjustWeight
  \/ UILogSet
  \/ UIRepeatLastSet
  \/ UILoggerBack
  \/ UIOpenPastWorkout
  \/ UIStartEdit
  \/ UIEditReps
  \/ UIEditWeight
  \/ UISaveEdit

SpecLogger == InitUIFlow /\ [][NextLogger]_vars

----------------------------------------------------------------------------
(* The statistics on snapshots with a history of several weeks: sets are   *)
(* logged with an explicit date (addSetToExercise's date parameter), the   *)
(* cleanup removes a date, the clock advances.                             *)

\* Monday 1970-01-26, the Monday of the week the statistics are read in
\* (four weeks after Monday 1969-12-29, which is day -3)
ThisMonday == 4 * DaysPerWeek - 3

\* Mondays and Sundays of the current week and of the three weeks before
StatsDays ==
  {ThisMonday - w * DaysPerWeek + o : w \in 0..3, o \in {0, DaysPerWeek - 1}}

\* Dwarf workouts (completed and not), a completed ordinary workout, and
\* two exercises with a session on the same day
StatsSeedDwarf ==
  [exercises |->
     <<EX(1, "Push", <<ES(4, ParseDate(ThisMonday - 7), <<S1>>)>>),
       EX(2, "Pull", <<ES(5, ParseDate(ThisMonday - 7) + 1, <<S2>>)>>)>>,
   workoutSessions |->
     <<WS(3, ParseDate(ThisMonday - 7), <<ParseDate(ThisMonday - 7) + 1>>,
          <<1, 2>>, FALSE),
       WS(6, ParseDate(ThisMonday - 14), <<ParseDate(ThisMonday - 14)>>,
          <<>>, TRUE),
       WS(7, ParseDate(ThisMonday - 1), <<>>, <<>>, TRUE),
       WS(8, ParseDate(ThisMonday - 21), <<ParseDate(ThisMonday - 21)>>,
          <<>>, FALSE)>>]

StatsSeedEmpty == [exercises |-> <<EX(1, "Push", <<>>)>>, workoutSessions |-> <<>>]

StatsSeeds == {StatsSeedEmpty, StatsSeedDwarf}

InitStats ==
  /\ data \in StatsSeeds
  /\ now \in {ParseDate(ThisMonday) + 1, ParseDate(ThisMonday + 5) + 1}
  /\ tz \in {-1, 0, 1}
  /\ nextId = 9
  /\ steps = 0
  /\ InitUI
  /\ logged = {}
  /\ last = Op("init", 0, 0, 0)
  /\ prev = data
  /\ InitStore

\* addSetToExercise(exerciseId, set, date) for a day of the last weeks
StatsAddSet ==
  /\ Step
  /\ \E day \in StatsDays :
       /\ ParseDate(day) <= now
       /\ data' = addSetToExercise(data, 1, S1, ParseDate(day), nextId)
       /\ last' = Op("addSetToExercise", 1, ParseDate(day), S1)
  /\ nextId' = nextId + 1
  /\ UNCHANGED now
  /\ Frame

StatsRemoveDate ==
  /\ Step
  /\ \E t \in {s.date : s \in SessionsOf(data)} :
       /\ data' = removeSessionsFromDate(data, t)
       /\ last' = Op("deleteSessionsFromDate", t, 0, 0)
  /\ UNCHANGED <<now, nextId>>
  /\ Frame

StatsEndWorkout ==
  /\ Step
  /\ \E sid \in WorkoutSessionIds(data) :
       /\ data' = endWorkoutSession(data, sid, now)
       /\ last' = Op("endWorkoutSession", sid, 0, 0)
  /\ UNCHANGED <<now, nextId>>
  /\ Frame

NextStats == StatsAddSet \/ StatsRemoveDate \/ StatsEndWorkout \/ Tick

SpecStats == InitStats /\ [][NextStats]_vars

\* a history longer than the weeks getCurrentStreak looks at
StreakWeeks == WeeksChecked + 8

\* the Monday of the week the long history ends in
StreakMonday == ThisMonday + StreakWeeks * DaysPerWeek

\* one exercise with one session a week, oldest first as addSetToExercise
\* appends them, on the weekday at offset o from Monday, for the weeks
\* first .. StreakWeeks - 1 before the current one
StreakSeed(first, o) ==
  [exercises |->
     <<EX(1, "Push",
          [i \in 1..(StreakWeeks - first) |->
             ES(100 + i,
                ParseDate(StreakMonday - (StreakWeeks - i) * DaysPerWeek + o),
                <<S1>>)])>>,
   workoutSessions |-> <<>>]

\* workouts on Mondays, Wednesdays or Sundays, with and without one in the
\* week of StreakMonday
StreakSeeds == {StreakSeed(f, o) : f \in {0, 1}, o \in {0, 2, DaysPerWeek - 1}}

InitStreak ==
  /\ data \in StreakSeeds
  /\ now \in {ParseDate(StreakMonday + DaysPerWeek - 1),
              ParseDate(StreakMonday + DaysPerWeek - 1) + 1}
  /\ tz \in {-1, 0, 1}
  /\ nextId = 200
  /\ steps = 0
  /\ InitUI
  /\ logged = {}
  /\ last = Op("init", 0, 0, 0)
  /\ prev = data
  /\ InitStore

\* addSetToExercise(exerciseId, set) at the current instant
StreakAddSet ==
  /\ Step
  /\ data' = addSetToExercise(data, 1, S1, now, nextId)
  /\ last' = Op("addSetToExercise", 1, now, S1)
  /\ nextId' = nextId + 1
  /\ UNCHANGED now
  /\ Frame

\* deleteSessionsFromDate for a session of the last three weeks
StreakRemoveDate ==
  /\ Step
  /\ \E t \in {s.date : s \in SessionsOf(data)} :
       /\ DatePart(t) >= StreakMonday - 2 * DaysPerWeek
       /\ data' = removeSessionsFromDate(data, t)
       /\ last' = Op("deleteSessionsFromDate", t, 0, 0)
  /\ UNCHANGED <<now, nextId>>
  /\ Frame

NextStreak == StreakAddSet \/ StreakRemoveDate \/ Tick

SpecStreak == InitStreak /\ [][NextStreak]_vars

----------------------------------------------------------------------------
(* The mutation layer on snapshots with three exercises of two categories, *)
(* for the order of an exercise within its muscle group.                   *)

\* a workout in progress listing exercises 1 and 2 (Push); exercise 3
\* (Pull) has sets of the same day without being listed
OrderSeedActive ==
  [exercises |-> <<EX(1, "Push", <<ES(5, 0, <<S1>>)>>),
                   EX(2, "Push", <<>>),
                   EX(3, "Pull", <<ES(6, 1, <<S2>>)>>)>>,
   workoutSessions |-> <<WS(4, 0, <<>>, <<1, 2>>, FALSE)>>]

\* two workouts of one day listing the same exercise
OrderSeedTwo ==
  [exercises |-> <<EX(1, "Push", <<ES(5, 0, <<S1>>)>>),
                   EX(2, "Push", <<>>),
                   EX(3, "Pull", <<>>)>>,
   workoutSessions |-> <<WS(4, 0, <<0>>, <<1>>, FALSE),
                         WS(6, 1, <<>>, <<2>>, FALSE)>>]

\* sets logged on exercises the workout of the day does not list
OrderSeedUnlisted ==
  [exercises |-> <<EX(1, "Push", <<ES(5, 0, <<S1>>)>>),
                   EX(2, "Pull", <<>>),
                   EX(3, "Push", <<>>)>>,
   workoutSessions |-> <<WS(4, 0, <<>>, <<2>>, FALSE)>>]

OrderSeeds == {OrderSeedActive, OrderSeedTwo}

InitOrder ==
  /\ data \in OrderSeeds
  /\ now = 1
  /\ nextId = 7
  /\ steps = 0
  /\ tz = 0
  /\ InitUI
  /\ logged = {}
  /\ last = Op("init", 0, 0, 0)
  /\ prev = data
  /\ InitStore

\* the entry points that change what the order is computed from
NextOrder ==
  \/ Tick
  \/ DeleteExercise
  \/ AddSetToExercise
  \/ StartWorkoutSession
  \/ DeleteWorkoutSession
  \/ AddExerciseToWorkoutSession

SpecOrder == InitOrder /\ [][NextOrder]_vars

\* the order where exerciseIds does not decide it: exercises deleted from
\* under a workout session, sets logged on exercises it does not list
FallbackSeeds == {OrderSeedActive, OrderSeedUnlisted}

InitFallback ==
  /\ data \in FallbackSeeds
  /\ now = 1
  /\ nextId = 7
  /\ steps = 0
  /\ tz = 0
  /\ InitUI
  /\ logged = {}
  /\ last = Op("init", 0, 0, 0)
  /\ prev = data
  /\ InitStore

NextFallback ==
  \/ Tick
  \/ DeleteExercise
  \/ AddSetToExercise
  \/ AddExerciseToWorkoutSession

SpecFallback == InitFallback /\ [][NextFallback]_vars

----------------------------------------------------------------------------
(* Persistence: the hook constructed on whatever the store holds, the      *)
(* mutations with their save effect, the import of a pasted text, the      *)
(* store refusing or accepting writes, and a reload of the page.           *)

TextOf(j) == [k |-> "text", indent |-> 0, json |-> j]

\* what localStorage can hold when the application starts
InitialStores ==
  {NoItem, EmptyText, Garbage, JSONstringify(SeedActive, 0),
   JSONstringify(StatsSeedDwarf, 0)}

\* texts importData rejects although JSON.parse accepts some of them
RejectedTexts ==
  {Garbage, EmptyText, TextOf(JNull), TextOf(JNum(0)), TextOf(JNum(1)),
   TextOf(JStr("exercises")), TextOf(JArr(<<>>)),
   TextOf(JObj([workoutSessions |-> JArr(<<>>)])),
   TextOf(JObj([exercises |-> JNull, workoutSessions |-> JArr(<<>>)])),
   TextOf(JObj([exercises |-> JObj(NoMembers)]))}

\* exported snapshots
ExportedTexts == {exportData(ImportEmptySession), exportData(bootstrapData)}

\* a text importData accepts that is no snapshot: workoutSessions is missing
ExercisesOnlyText == TextOf(JObj([exercises |-> JArr(<<>>)]))

ImportTexts == RejectedTexts \cup ExportedTexts \cup {ExercisesOnlyText}

\* the value has the members of a WorkoutData
SnapshotShaped(j) ==
  /\ HasMember(j, "exercises") /\ j.v.exercises.k = "arr"
  /\ HasMember(j, "workoutSessions") /\ j.v.workoutSessions.k = "arr"

InitStorage ==
  /\ \E s0 \in InitialStores, w \in BOOLEAN :
       LET loaded == loadData(s0, w)
       IN /\ data = FromJSON(loaded.value)
          /\ writable = w
          \* the effect of the first render saves what was loaded
          /\ store = saveData(loaded.store, w, data)
          /\ last = Op("init", s0, 0, 0)
  /\ now = 3
  /\ nextId = 9
  /\ steps = 0
  /\ tz = 0
  /\ InitUI
  /\ logged = {}
  /\ prev = data

\* Dashboard.handleImport on the pasted text
Import ==
  /\ Step
  /\ \E text \in ImportTexts :
       LET parsed == importData(text)
       IN /\ parsed # <<>> => SnapshotShaped(parsed[1])
          /\ last' = Op("import", 0, 0, text)
          /\ IF parsed # <<>>
             THEN /\ data' = replaceData(data, FromJSON(parsed[1]))
                  /\ SaveEffect
             ELSE UNCHANGED data /\ NoSave
  /\ UNCHANGED <<now, nextId, tz, logged>>
  /\ UNCHANGED uiVars

\* localStorage starts or stops accepting writes (quota, browser settings)
StorageChange ==
  /\ Step
  /\ writable' = ~writable
  /\ last' = Op("storage", 0, 0, 0)
  /\ UNCHANGED <<data, now, nextId, tz, logged, store>>
  /\ UNCHANGED uiVars

\* the page is loaded again: useState(() => loadData()) and the first effect
Reload ==
  /\ Step
  /\ LET loaded == loadData(store, writable)
     IN /\ data' = FromJSON(loaded.value)
        /\ store' = saveData(loaded.store, writable, data')
  /\ last' = Op("reload", store, 0, 0)
  /\ UNCHANGED <<now, nextId, tz, logged, writable>>
  /\ UNCHANGED uiVars

NextStorage ==
  \/ AddExercise
  \/ DeleteExercise
  \/ EndWorkoutSession
  \/ DeleteWorkoutSession
  \/ Import
  \/ StorageChange
  \/ Reload

SpecStorage == InitStorage /\ [][NextStorage]_vars

\* return data as WorkoutData: the parsed object is handed on as it is, so
\* a member the text lacks is missing from the snapshot as well
asWorkoutData(j) ==
  IF HasMember(j, "workoutSessions") THEN FromJSON(j)
  ELSE [exercises |-> [i \in DOMAIN j.v.exercises.v |->
                         ExerciseFromJSON(j.v.exercises.v[i])]]

\* App renders: getActiveWorkoutSession(data) reads data.workoutSessions
\* and throws when the snapshot has none, which leaves the page blank
Renders(d) == "workoutSessions" \in DOMAIN d

\* Dashboard.handleImport on any pasted text: what importData returns is
\* installed by replaceData; the render that follows throws on a snapshot
\* without workoutSessions, so the effect that saves never runs for it
InstallImport ==
  /\ Renders(data)
  /\ Step
  /\ \E text \in ImportTexts :
       LET parsed == importData(text)
       IN /\ last' = Op("import", 0, 0, text)
          /\ IF parsed # <<>>
             THEN /\ data' = replaceData(data, asWorkoutData(parsed[1]))
                  /\ IF Renders(data') THEN SaveEffect ELSE NoSave
             ELSE UNCHANGED data /\ NoSave
  /\ UNCHANGED <<now, nextId, tz, logged>>
  /\ UNCHANGED uiVars

\* the handlers need the rendered page; reloading the page and the state
\* of localStorage do not
InstallAddExercise == Renders(data) /\ AddExercise

InstallDeleteExercise == Renders(data) /\ DeleteExercise

InstallEndWorkoutSession == Renders(data) /\ EndWorkoutSession

NextInstall ==
  \/ InstallImport
  \/ InstallAddExercise
  \/ InstallDeleteExercise
  \/ InstallEndWorkoutSession
  \/ StorageChange
  \/ Reload

SpecInstall == InitStorage /\ [][NextInstall]_vars

----------------------------------------------------------------------------
(* Properties of the mutation layer *)

\* the sessions of an exercise dated on a day, in the exercise's order
SessionsOnDay(e, day) == SelectSeq(e.sessions, LAMBDA s : DatePart(s.date) = day)

NoDuplicateDay(d) ==
  \A i \in DOMAIN d.exercises :
    \A j, k \in DOMAIN d.exercises[i].sessions :
      j # k => DatePart(d.exercises[i].sessions[j].date)
                 # DatePart(d.exercises[i].sessions[k].date)

\* sets of the (at most one) session of exercise id on a day
SetsOnDay(d, id, day) ==
  LET on == SessionsOnDay(ExerciseById(d, id), day)
  IN IF on = <<>> THEN <<>> ELSE on[1].sets

\* the timestamps of the current calendar day
TicksOfToday ==
  {t \in (now - TicksPerDay)..(now + TicksPerDay) : DatePart(t) = DatePart(now)}

\* two addSetToExercise calls on the same exercise, with two timestamps of
\* the same calendar day
TwoCallsOneSession(d) ==
  \A i \in DOMAIN d.exercises : \A a, b \in SetInputs :
    \A t1, t2 \in TicksOfToday :
      a # b =>
        LET before == d.exercises[i].sessions
            once == addSetToExerciseSessions(before, a, t1, nextId)
            twice == addSetToExerciseSessions(once, b, t2, nextId + 1)
            today(ss) == SelectSeq(ss, LAMBDA s : DatePart(s.date) = DatePart(now))
        IN /\ Len(today(twice)) = 1
           /\ today(twice)[1].sets =
                (IF today(before) = <<>> THEN <<>> ELSE today(before)[1].sets)
                  \o <<a, b>>

\* C1: no exercise ever has two ExerciseSessions on one calendar day; an
\* addSetToExercise step appends the set to the day's session (creating it
\* when there is none), and two calls on one day give one session holding
\* both sets in call order.
C1_OneSessionPerDay ==
  /\ NoDuplicateDay(data)
  /\ TwoCallsOneSession(data)
  /\ (last.op = "addSetToExercise" /\ last.a \in ExerciseIds(prev)) =>
       /\ Len(SessionsOnDay(ExerciseById(data, last.a), DatePart(last.b))) = 1
       /\ SetsOnDay(data, last.a, DatePart(last.b))
            = SetsOnDay(prev, last.a, DatePart(last.b)) \o <<last.c>>

\* a set was added to a session created under another timestamp of that day
C1_Witness ==
  /\ last.op = "addSetToExercise"
  /\ last.a \in ExerciseIds(prev)
  /\ \E s \in Range(ExerciseById(prev, last.a).sessions) :
       s.date # last.b /\ DatePart(s.date) = DatePart(last.b)
  /\ Len(SetsOnDay(data, last.a, DatePart(last.b))) >= 2

\* s without its k-th element
Without(s, k) == SubSeq(s, 1, k - 1) \o SubSeq(s, k + 1, Len(s))

\* C2: deleteWorkoutSession(S) removes S, removes from each exercise listed
\* in S.exerciseIds exactly the sessions dated on S's start date, and leaves
\* every other exercise and every other workout session unchanged.
C2_DeleteWorkoutSessionEffect ==
  (last.op = "deleteWorkoutSession" /\ last.a \in WorkoutSessionIds(prev)) =>
    LET S == WorkoutById(prev, last.a)
        day == DatePart(S.startTime)
    IN /\ \E k \in DOMAIN prev.workoutSessions :
            /\ prev.workoutSessions[k] = S
            /\ data.workoutSessions = Without(prev.workoutSessions, k)
       /\ DOMAIN data.exercises = DOMAIN prev.exercises
       /\ \A i \in DOMAIN prev.exercises :
            LET e == prev.exercises[i]
            IN IF e.id \in Range(S.exerciseIds)
               THEN data.exercises[i] =
                      [e EXCEPT !.sessions =
                         SelectSeq(@, LAMBDA es : DatePart(es.date) # day)]
               ELSE data.exercises[i] = e

\* S was deleted while a member of S and a non-member both had a session
\* on S's date, and another workout session existed
C2_Witness ==
  /\ last.op = "deleteWorkoutSession"
  /\ last.a \in WorkoutSessionIds(prev)
  /\ Len(prev.workoutSessions) >= 2
  /\ LET S == WorkoutById(prev, last.a)
         day == DatePart(S.startTime)
     IN /\ \E e \in Range(prev.exercises) :
             e.id \in Range(S.exerciseIds) /\ SessionsOnDay(e, day) # <<>>
        /\ \E e \in Range(prev.exercises) :
             e.id \notin Range(S.exerciseIds) /\ SessionsOnDay(e, day) # <<>>

\* C6: a workout session that has an endTime has one in the next state, as
\* long as it exists.
C6_CompletedStaysCompleted ==
  \A s \in Range(prev.workoutSessions) : \A s2 \in Range(data.workoutSessions) :
    (s.id = s2.id /\ s.endTime # <<>>) => s2.endTime # <<>>

\* endWorkoutSession was issued on a session that was already completed
C6_Witness ==
  /\ last.op = "endWorkoutSession"
  /\ \E s \in Range(prev.workoutSessions) :
       s.id = last.a /\ s.endTime # <<>>
  /\ \E s \in Range(data.workoutSessions) :
       s.id = last.a /\ s.endTime # <<>>

NoDuplicateExerciseIds(d) ==
  \A i \in DOMAIN d.workoutSessions :
    \A j, k \in DOMAIN d.workoutSessions[i].exerciseIds :
      j # k => d.workoutSessions[i].exerciseIds[j]
                 # d.workoutSessions[i].exerciseIds[k]

\* C8: addExerciseToWorkoutSession is idempotent, keeps the order of
\* exerciseIds and appends a new id last; no exerciseIds ever lists an id
\* twice.
C8_AddExerciseIdempotent ==
  /\ NoDuplicateExerciseIds(data)
  /\ last.op = "addExerciseToWorkoutSession" =>
       /\ addExerciseToWorkoutSession(data, last.a, last.b) = data
       /\ \A s \in Range(prev.workoutSessions) :
            s.id = last.a =>
              WorkoutById(data, last.a).exerciseIds =
                IF last.b \in Range(s.exerciseIds) THEN s.exerciseIds
                ELSE s.exerciseIds \o <<last.b>>

\* an id was appended behind another one, and an id already listed was
\* added again
C8_Witness ==
  /\ last.op = "addExerciseToWorkoutSession"
  /\ last.a \in WorkoutSessionIds(prev)
  /\ last.b \in Range(WorkoutById(prev, last.a).exerciseIds)
  /\ Len(WorkoutById(prev, last.a).exerciseIds) >= 2

\* deleteSet's ids and index resolve on the previous snapshot
DeleteSetResolves ==
  /\ last.op = "deleteSet"
  /\ last.a \in ExerciseIds(prev)
  /\ \E s \in Range(ExerciseById(prev, last.a).sessions) :
       s.id = last.b /\ last.c + 1 \in DOMAIN s.sets

\* what the claim says deleteSet does to the snapshot
DeleteSetEffect ==
  LET e == ExerciseById(prev, last.a)
      k == CHOOSE j \in DOMAIN e.sessions : e.sessions[j].id = last.b
      s == e.sessions[k]
  IN /\ data.workoutSessions = prev.workoutSessions
     /\ DOMAIN data.exercises = DOMAIN prev.exercises
     /\ \A i \in DOMAIN prev.exercises :
          IF prev.exercises[i].id # last.a
          THEN data.exercises[i] = prev.exercises[i]
          ELSE data.exercises[i] =
                 [e EXCEPT !.sessions =
                    IF Len(s.sets) = 1
                    THEN Without(e.sessions, k)
                    ELSE [e.sessions EXCEPT ![k].sets = Without(s.sets, last.c + 1)]]
     /\ Len(s.sets) = 1 =>
          Len(ExerciseById(data, last.a).sessions) = Len(e.sessions) - 1

\* C7 as stated: whenever the ids and the index resolve, deleteSet removes
\* the one set (and the session with it when it was the only set) and
\* changes nothing else.
C7_DeleteSetAsStated == DeleteSetResolves => DeleteSetEffect

\* C7 as amended: the same, on an exercise none of whose other sessions is
\* empty (the pruning filter runs over all sessions of the exercise).
C7_DeleteSetEffect ==
  (/\ DeleteSetResolves
   /\ \A s \in Range(ExerciseById(prev, last.a).sessions) :
        s.id # last.b => Len(s.sets) > 0)
    => DeleteSetEffect

\* the only set of a session was deleted from an exercise with several
\* non-empty sessions
C7_Witness ==
  /\ DeleteSetResolves
  /\ LET e == ExerciseById(prev, last.a)
     IN /\ Len(e.sessions) >= 2
        /\ \A s \in Range(e.sessions) : Len(s.sets) > 0
        /\ \E s \in Range(e.sessions) : s.id = last.b /\ Len(s.sets) = 1
        /\ Len(ExerciseById(data, last.a).sessions) = Len(e.sessions) - 1

----------------------------------------------------------------------------
(* Properties of the presentation layer *)

TagPresent(d, tag) ==
  \E s \in SessionsOf(d) : \E k \in DOMAIN s.sets : s.sets[k].tag = tag

ActiveSessions(d) == {s \in Range(d.workoutSessions) : s.endTime = <<>>}

\* C3: after deleteWorkoutSession(S) no set logged while S was the active
\* session remains in any exercise.
C3_DeleteRemovesLoggedSets ==
  last.op = "deleteWorkoutSession" =>
    \A l \in logged : l.ws = last.a => ~TagPresent(data, l.tag)

\* C4: after deleteWorkoutSession(S) every set logged while another session
\* S' of the same start date was active is still present, for every
\* exercise of S'.exerciseIds.
C4_DeleteKeepsOtherSessionsSets ==
  (last.op = "deleteWorkoutSession" /\ last.a \in WorkoutSessionIds(prev)) =>
    \A l \in logged :
      (/\ l.ws # last.a
       /\ l.ws \in WorkoutSessionIds(prev)
       /\ DatePart(WorkoutById(prev, l.ws).startTime)
            = DatePart(WorkoutById(prev, last.a).startTime)
       /\ l.ex \in Range(WorkoutById(prev, l.ws).exerciseIds)
       /\ TagPresent(prev, l.tag))
        => TagPresent(data, l.tag)

\* C5: at most one workout session lacks an endTime.
C5_AtMostOneActive == Cardinality(ActiveSessions(data)) <= 1

\* a workout was started from the start screen while completed ones exist
C5_Witness ==
  /\ last.op = "startWorkoutSession"
  /\ Cardinality(ActiveSessions(data)) = 1
  /\ Len(data.workoutSessions) >= 2

----------------------------------------------------------------------------
(* Properties of the derivation functions *)

AllSessionDates(d) == {DatePart(s.date) : s \in SessionsOf(d)}

CompletedDwarfDates(d) ==
  {DatePart(s.startTime) :
     s \in {x \in Range(d.workoutSessions) :
              x.isDwarfWorkout /\ x.endTime # <<>>}}

\* C9: getUniqueWorkoutDates is strictly ascending and its elements are
\* exactly the dates of the exercise sessions and the start dates of the
\* completed Dwarf workouts.
C9_UniqueWorkoutDates ==
  LET dates == getUniqueWorkoutDates(data)
  IN /\ \A i, j \in DOMAIN dates : i < j => dates[i] < dates[j]
     /\ Range(dates) = AllSessionDates(data) \cup CompletedDwarfDates(data)

\* a completed Dwarf workout alone puts its date in the result, while an
\* ordinary completed workout and a Dwarf workout without endTime on dates
\* without exercise sessions put none, and two sessions share a date
C9_Witness ==
  /\ CompletedDwarfDates(data) \ AllSessionDates(data) # {}
  /\ \E s \in Range(data.workoutSessions) :
       /\ ~s.isDwarfWorkout /\ s.endTime # <<>>
       /\ DatePart(s.startTime) \notin Range(getUniqueWorkoutDates(data))
  /\ \E s \in Range(data.workoutSessions) :
       /\ s.isDwarfWorkout /\ s.endTime = <<>>
       /\ DatePart(s.startTime) \notin Range(getUniqueWorkoutDates(data))
  /\ Len(ExerciseSessionDates(data)) > Cardinality(AllSessionDates(data))
  /\ Len(getUniqueWorkoutDates(data)) >= 3
  /\ last.op = "addSetToExercise"

\* the Monday-based calendar week of a day (1969-12-29 was a Monday)
WeekOf(day) == (day + 3) \div DaysPerWeek

WorkoutWeeks(d) ==
  LET dates == getUniqueWorkoutDates(d)
  IN {WeekOf(dates[i]) : i \in DOMAIN dates}

\* consecutive weeks with a workout, counted backward from week w
RECURSIVE Consecutive(_, _, _)
Consecutive(weeks, w, n) ==
  IF n = 0 \/ w \notin weeks THEN 0 ELSE 1 + Consecutive(weeks, w - 1, n - 1)

\* the streak the claim describes: the current week is skipped when empty
ExpectedStreak(d) ==
  LET weeks == WorkoutWeeks(d)
      w0 == WeekOf(LocalDay(now))
  IN IF w0 \in weeks THEN Consecutive(weeks, w0, WeeksChecked)
     ELSE Consecutive(weeks, w0 - 1, WeeksChecked - 1)

\* C10: getCurrentStreak is the number of consecutive Monday-based weeks
\* holding a workout date, counted backward from the current week, an empty
\* current week being skipped.
C10_StreakCountsWeeks == getCurrentStreak(data) = ExpectedStreak(data)

----------------------------------------------------------------------------
(* Order within the muscle group *)

\* the arguments getMuscleGroupOrder is asked about
OrderIds == ExerciseIds(data) \cup {UnknownId}
               \cup UNION {Range(w.exerciseIds) : w \in Range(data.workoutSessions)}

OrderDates == {w.startTime : w \in Range(data.workoutSessions)}

Rank(id, category, t) ==
  getMuscleGroupOrder(id, category, t, data.workoutSessions, data.exercises)

\* the workout sessions of the date of t that list id, by position
Listing(id, t) ==
  {k \in DOMAIN data.workoutSessions :
     /\ DatePart(data.workoutSessions[k].startTime) = DatePart(t)
     /\ Includes(data.workoutSessions[k].exerciseIds, id)}

HasCategory(id, category) ==
  \E e \in Range(data.exercises) : e.id = id /\ e.category = category

\* exerciseIds of session k restricted to the exercises of a category
OfCategory(k, category) ==
  SelectSeq(data.workoutSessions[k].exerciseIds,
            LAMBDA id : HasCategory(id, category))

\* x stands at 1-based position n of seq, and nowhere before
PositionIs(seq, x, n) ==
  n \in DOMAIN seq /\ seq[n] = x /\ \A j \in 1..(n - 1) : seq[j] # x

FirstOf(S) == CHOOSE k \in S : \A j \in S : k <= j

\* C11 as stated: whenever a workout session of the date lists the
\* exercise, the result is the exercise's position among the ids of the
\* given category in such a session, and two distinct exercises of one
\* category listed in one session get different ranks.
C11_RankAsStated ==
  /\ \A id \in OrderIds, category \in Categories, t \in OrderDates :
       Listing(id, t) # {} =>
         \E k \in Listing(id, t) :
           /\ Rank(id, category, t) # <<>>
           /\ PositionIs(OfCategory(k, category), id, Rank(id, category, t)[1])
  /\ \A k \in DOMAIN data.workoutSessions, category \in Categories :
       \A a, b \in Range(OfCategory(k, category)) :
         a # b => Rank(a, category, data.workoutSessions[k].startTime)
                    # Rank(b, category, data.workoutSessions[k].startTime)

\* C11 amended: when the exercise exists with the given category, the
\* result is its position among the ids of that category in the first
\* workout session of the date that lists it; two distinct exercises of one
\* category whose first such session is the same get different ranks.
C11_RankInFirstSession ==
  /\ \A id \in OrderIds, category \in Categories, t \in OrderDates :
       (Listing(id, t) # {} /\ HasCategory(id, category)) =>
          /\ Rank(id, category, t) # <<>>
          /\ PositionIs(OfCategory(FirstOf(Listing(id, t)), category), id,
                        Rank(id, category, t)[1])
  /\ \A a, b \in OrderIds, category \in Categories, t \in OrderDates :
       (/\ a # b
        /\ HasCategory(a, category) /\ HasCategory(b, category)
        /\ Listing(a, t) # {} /\ Listing(b, t) # {}
        /\ FirstOf(Listing(a, t)) = FirstOf(Listing(b, t)))
         => Rank(a, category, t) # Rank(b, category, t)

\* exerciseIds [1, 2, 3] with 1, 2 in Push and 3 in Pull, 3 just appended:
\* 2 is the 2nd Push exercise and 3 the 1st Pull exercise
C11_Witness ==
  /\ last.op = "addExerciseToWorkoutSession"
  /\ \E w \in Range(data.workoutSessions) :
       /\ w.exerciseIds = <<1, 2, 3>>
       /\ HasCategory(1, "Push") /\ HasCategory(2, "Push")
       /\ HasCategory(3, "Pull")
       /\ Listing(2, w.startTime) = Listing(3, w.startTime)
       /\ Rank(2, "Push", w.startTime) = <<2>>
       /\ Rank(3, "Pull", w.startTime) = <<1>>

----------------------------------------------------------------------------
(* Properties of the persistence *)

\* the text parses as JSON to a value with an array-valued exercises member
ArrayValuedExercises(text) ==
  /\ text.k = "text"
  /\ text.json.k = "obj"
  /\ "exercises" \in DOMAIN text.json.v
  /\ text.json.v.exercises.k = "arr"

\* C12: importData returns the parsed value exactly for the texts that
\* parse to a value with an array-valued exercises member and null for
\* every other text; an import of a rejected text changes neither the
\* snapshot in memory nor the store.
C12_ImportRejects ==
  /\ [](\A text \in ImportTexts :
          IF ArrayValuedExercises(text)
          THEN importData(text) = <<text.json>>
          ELSE importData(text) = <<>>)
  /\ [][(last'.op = "import" /\ steps' # steps
           /\ ~ArrayValuedExercises(last'.c))
          => (data' = data /\ store' = store)]_vars

\* a text that parses, to an object without exercises, was pasted and
\* rejected, and the snapshot is the one before
C12_Witness ==
  /\ last.op = "import"
  /\ last.c = TextOf(JObj([workoutSessions |-> JArr(<<>>)]))
  /\ importData(last.c) = <<>>
  /\ data = prev
  /\ Len(data.exercises) > 0

StoresSnapshot(op, before) ==
  \/ op.op \in {"addExercise", "deleteExercise", "endWorkoutSession"}
  \/ op.op = "deleteWorkoutSession" /\ op.a \in WorkoutSessionIds(before)
  \/ op.op = "import" /\ ArrayValuedExercises(op.c)

\* the snapshot the step's operation gives
Mutated(op, before, after) ==
  CASE op.op = "deleteExercise" -> after = deleteExercise(before, op.a)
    [] op.op = "deleteWorkoutSession" ->
         after = deleteWorkoutSession(before, op.a)
    [] op.op = "import" -> after = FromJSON(op.c.json)
    [] op.op = "endWorkoutSession" ->
         after = endWorkoutSession(before, op.a, now)
    [] op.op = "addExercise" ->
         Len(after.exercises) = Len(before.exercises) + 1
    [] OTHER -> FALSE

\* C14: a mutation (import included) whose write succeeds leaves the store
\* equal to the snapshot in memory; whatever is written to the store is the
\* snapshot in memory; a write that fails leaves the store as it was and
\* the snapshot in memory as mutated.
C14_StorageFollowsSnapshot ==
  [][/\ (steps' # steps /\ StoresSnapshot(last', data) /\ writable)
          => store' = JSONstringify(data', 0)
     /\ store' # store => store' = JSONstringify(data', 0)
     /\ (steps' # steps /\ StoresSnapshot(last', data) /\ ~writable)
          => (store' = store /\ Mutated(last', data, data'))]_vars

\* a mutation whose write failed: the store lags behind the snapshot; and
\* a later one whose write succeeded would bring it back
C14_Witness ==
  /\ last.op = "deleteExercise"
  /\ data # prev
  /\ ~writable
  /\ store = JSONstringify(prev, 0)
  /\ store # JSONstringify(data, 0)

\* the store holds no JSON text
NothingUsable(st) == st.k # "text"

LoadStores == InitialStores \cup {store}

\* C15 as stated: loadData returns the default and the store then holds
\* the default when nothing usable is stored; it returns the parsed value
\* and leaves the store alone when the stored text parses.
C15_LoadDataAsStated ==
  \A st \in LoadStores, w \in BOOLEAN :
    IF NothingUsable(st)
    THEN /\ loadData(st, w).value = ToJSON(bootstrapData)
         /\ loadData(st, w).store = JSONstringify(bootstrapData, 0)
    ELSE /\ loadData(st, w).value = st.json
         /\ loadData(st, w).store = st

\* C15 amended: as stated when the write succeeds; when it fails the
\* default is still returned and the store is left as it was.
C15_LoadData ==
  /\ \A st \in LoadStores, w \in BOOLEAN :
       IF NothingUsable(st)
       THEN /\ loadData(st, w).value = ToJSON(bootstrapData)
            /\ loadData(st, w).store =
                 (IF w THEN JSONstringify(bootstrapData, 0) ELSE st)
       ELSE /\ loadData(st, w).value = st.json
            /\ loadData(st, w).store = st
  /\ last.op = "reload" =>
       /\ NothingUsable(last.a) => data = bootstrapData
       /\ (NothingUsable(last.a) /\ writable)
            => store = JSONstringify(bootstrapData, 0)
       /\ (NothingUsable(last.a) /\ ~writable) => store = last.a
       /\ ~NothingUsable(last.a) => ToJSON(data) = last.a.json

\* the page was loaded again on a store without a usable text, the write
\* went through and the store holds the default
C15_Witness ==
  /\ last.op = "reload"
  /\ NothingUsable(last.a)
  /\ writable
  /\ data = bootstrapData
  /\ store = JSONstringify(bootstrapData, 0)

----------------------------------------------------------------------------
(* Derivation functions and the snapshot *)

\* C16: evaluating the derivation functions leaves the snapshot as it is,
\* the order of every exercise's sessions included: a step of the screens
\* that calls no entry point of the hook does not change the snapshot.
C16_DerivationsLeaveSnapshot ==
  [][(steps' # steps
        /\ last'.op \in {"toggleCategory", "navigate", "openExercise",
                         "detailBack", "loggerBack", "viewExercise",
                         "openPastWorkout", "pastBack", "tick"})
       => data' = data]_vars

----------------------------------------------------------------------------
(* Frames of deleteExercise and removeSessionsFromDate, the cleanup of     *)
(* orphaned sessions, the workouts of the week                             *)

\* C17: deleteExercise(id) removes exactly the exercise with that id, the
\* other exercises keep order and content, and workoutSessions, with every
\* exerciseIds that lists id, stay as they were.
C17_DeleteExerciseFrame ==
  last.op = "deleteExercise" =>
    /\ data.workoutSessions = prev.workoutSessions
    /\ \A e \in Range(data.exercises) : e.id # last.a
    /\ LET at == {i \in DOMAIN prev.exercises : prev.exercises[i].id = last.a}
       IN IF at = {} THEN data.exercises = prev.exercises
          ELSE \E k \in at : data.exercises = Without(prev.exercises, k)

\* an exercise with sessions that a workout session lists was deleted, one
\* other exercise remains and the workout session still lists the id
C17_Witness ==
  /\ last.op = "deleteExercise"
  /\ \E e \in Range(prev.exercises) : e.id = last.a /\ Len(e.sessions) > 0
  /\ Len(data.exercises) = Len(prev.exercises) - 1
  /\ Len(data.exercises) >= 1
  /\ \E w \in Range(data.workoutSessions) : Includes(w.exerciseIds, last.a)

\* C18: removeSessionsFromDate removes from every exercise exactly the
\* sessions of the date, listed by a workout session or not, keeps the
\* other sessions, the exercise list and workoutSessions, and a second
\* application changes nothing.
C18_RemoveSessionsFromDateFrame ==
  last.op = "deleteSessionsFromDate" =>
    /\ data.workoutSessions = prev.workoutSessions
    /\ Len(data.exercises) = Len(prev.exercises)
    /\ \A i \in DOMAIN prev.exercises :
         /\ data.exercises[i].id = prev.exercises[i].id
         /\ data.exercises[i].name = prev.exercises[i].name
         /\ data.exercises[i].category = prev.exercises[i].category
         /\ \A s \in Range(data.exercises[i].sessions) :
              DatePart(s.date) # DatePart(last.a)
         /\ \E keep \in SUBSET DOMAIN prev.exercises[i].sessions :
              /\ keep = {j \in DOMAIN prev.exercises[i].sessions :
                           DatePart(prev.exercises[i].sessions[j].date)
                             # DatePart(last.a)}
              /\ Len(data.exercises[i].sessions) = Cardinality(keep)
              /\ \A j \in keep :
                   data.exercises[i].sessions
                     [Cardinality({x \in keep : x <= j})]
                       = prev.exercises[i].sessions[j]
    /\ removeSessionsFromDate(data, last.a) = data

\* the cleanup was given a time of day other than the sessions' and removed
\* a session of an exercise no workout session lists, keeping another one
C18_Witness ==
  /\ last.op = "deleteSessionsFromDate"
  /\ \E i \in DOMAIN prev.exercises :
       /\ \A w \in Range(prev.workoutSessions) :
            ~Includes(w.exerciseIds, prev.exercises[i].id)
       /\ \E s \in Range(prev.exercises[i].sessions) :
            DatePart(s.date) = DatePart(last.a) /\ s.date # last.a
       /\ Len(data.exercises[i].sessions) < Len(prev.exercises[i].sessions)
  /\ \E e \in Range(data.exercises) : Len(e.sessions) > 0

\* the date of the session is the start date of a completed workout session
HasCompletedWorkout(d, s) ==
  \E w \in Range(d.workoutSessions) :
    w.endTime # <<>> /\ DatePart(w.startTime) = DatePart(s.date)

\* C19: cleanOrphanedSessions returns the snapshot itself when there is no
\* workout session; otherwise it keeps, in order, exactly the exercise
\* sessions dated on the start date of a completed workout session, and
\* workoutSessions is unchanged.
C19_CleanOrphanedSessions ==
  LET r == cleanOrphanedSessions(data)
  IN IF data.workoutSessions = <<>> THEN r = data
     ELSE /\ r.workoutSessions = data.workoutSessions
          /\ Len(r.exercises) = Len(data.exercises)
          /\ \A i \in DOMAIN data.exercises :
               /\ r.exercises[i].id = data.exercises[i].id
               /\ \A s \in Range(r.exercises[i].sessions) :
                    HasCompletedWorkout(data, s)
               /\ \A s \in Range(data.exercises[i].sessions) :
                    HasCompletedWorkout(data, s)
                      => s \in Range(r.exercises[i].sessions)
               /\ \A a, b \in DOMAIN r.exercises[i].sessions :
                    a < b =>
                      \E x, y \in DOMAIN data.exercises[i].sessions :
                        /\ x < y
                        /\ data.exercises[i].sessions[x]
                             = r.exercises[i].sessions[a]
                        /\ data.exercises[i].sessions[y]
                             = r.exercises[i].sessions[b]

\* a set was just logged during a workout in progress; the cleanup removes
\* the session of that day and keeps one of a completed workout
C19_Witness ==
  /\ last.op = "addSetToExercise"
  /\ \E e \in Range(data.exercises) :
       \E s \in Range(e.sessions) : HasCompletedWorkout(data, s)
  /\ \E i \in DOMAIN data.exercises :
       \E s \in Range(data.exercises[i].sessions) :
         /\ s \notin Range(cleanOrphanedSessions(data).exercises[i].sessions)
         /\ \E w \in Range(data.workoutSessions) :
              w.endTime = <<>> /\ DatePart(w.startTime) = DatePart(s.date)
  /\ cleanOrphanedSessions(data) # data

\* the local calendar day of the most recent Sunday, today when a Sunday
MostRecentSunday == LocalDay(now) - DayOfWeek(LocalDay(now))

\* C20: getWorkoutsThisWeek is the number of unique workout dates on or
\* after the most recent Sunday, and at most getTotalWorkouts.
C20_WorkoutsThisWeek ==
  /\ getWorkoutsThisWeek(data)
       = Cardinality({i \in DOMAIN getUniqueWorkoutDates(data) :
                        getUniqueWorkoutDates(data)[i] >= MostRecentSunday})
  /\ getWorkoutsThisWeek(data) <= getTotalWorkouts(data)

----------------------------------------------------------------------------
(* The values of stored sets, unresolved references, empty sessions        *)

\* C21: every Set stored in the snapshot has reps >= 1 and weight >= 0 in
\* every state reached through the set logger (typing, the - and + buttons,
\* Log Set, Repeat Last Set) and the set editor of the workout detail.
C21_SetsValid ==
  \A s \in SessionsOf(data) :
    \A k \in DOMAIN s.sets : s.sets[k].reps >= 1 /\ s.sets[k].weight >= 0

\* a set was logged with reps and weight the user brought to 1 and 2.5 kg
\* from the defaults of an exercise without sets
C21_Witness ==
  /\ last.op = "addSetToExercise"
  /\ last.c.reps = 1
  /\ last.c.weight = WeightStep
  /\ getPreFillValues(ExerciseById(prev, last.a)) = <<>>

\* no exercise holds a session without sets
NoEmptySessions(d) == \A s \in SessionsOf(d) : Len(s.sets) > 0

\* the exercise id, the session id or the index of a deleteSet call does not
\* resolve in the snapshot d
DeleteSetUnresolved(d, exerciseId, sessionId, setIndex) ==
  \/ exerciseId \notin ExerciseIds(d)
  \/ \A s \in Range(ExerciseById(d, exerciseId).sessions) : s.id # sessionId
  \/ \A s \in Range(ExerciseById(d, exerciseId).sessions) :
       s.id = sessionId => setIndex + 1 \notin DOMAIN s.sets

\* the last call carried a reference that does not resolve
UnresolvedCall ==
  \/ last.op = "addSetToExercise" /\ last.a \notin ExerciseIds(prev)
  \/ last.op = "deleteSet" /\ DeleteSetUnresolved(prev, last.a, last.b, last.c)
  \/ /\ last.op \in {"endWorkoutSession", "deleteWorkoutSession",
                     "addExerciseToWorkoutSession"}
     /\ last.a \notin WorkoutSessionIds(prev)

\* C22: on a snapshot without empty ExerciseSessions, addSetToExercise with
\* an unknown exerciseId, deleteSet with an unknown exerciseId or sessionId
\* or an index out of range, and endWorkoutSession, deleteWorkoutSession and
\* addExerciseToWorkoutSession with an unknown session id leave exercises
\* and workoutSessions as they were.
C22_UnresolvedIsNoOp ==
  (UnresolvedCall /\ NoEmptySessions(prev)) => data = prev

\* deleteSet was called on an existing session with an index past its sets
C22_Witness ==
  /\ last.op = "deleteSet"
  /\ last.a \in ExerciseIds(prev)
  /\ \E s \in Range(ExerciseById(prev, last.a).sessions) :
       s.id = last.b /\ Len(s.sets) > 0 /\ last.c >= Len(s.sets)
  /\ NoEmptySessions(prev)
  /\ data = prev

\* C23: no ExerciseSession without sets exists in any state reached from a
\* snapshot without one by addSetToExercise, deleteSet, deleteExercise,
\* deleteWorkoutSession, removeSessionsFromDate and the workout-session
\* operations.
C23_NoEmptySession ==
  \A e \in Range(data.exercises) :
    \A k \in DOMAIN e.sessions : e.sessions[k].sets # <<>>

\* the only set of an exercise's only session was deleted and the session
\* went with it; another exercise still has its sessions
C23_Witness ==
  /\ last.op = "deleteSet"
  /\ last.a \in ExerciseIds(prev)
  /\ Len(ExerciseById(prev, last.a).sessions) = 1
  /\ ExerciseById(prev, last.a).sessions[1].id = last.b
  /\ Len(ExerciseById(prev, last.a).sessions[1].sets) = 1
  /\ last.c = 0
  /\ ExerciseById(data, last.a).sessions = <<>>
  /\ \E s \in SessionsOf(data) : Len(s.sets) > 0

----------------------------------------------------------------------------
(* Dangling references and the fallback of getMuscleGroupOrder             *)

\* the ids of session w that are ids of no exercise
Dangling(w) == Range(w.exerciseIds) \ ExerciseIds(data)

\* the workout session with the dangling ids taken out of exerciseIds
StripDangling(w) ==
  [w EXCEPT !.exerciseIds = SelectSeq(@, LAMBDA id : id \in ExerciseIds(data))]

\* workoutSessions with the dangling ids taken out
StrippedSessions ==
  [k \in DOMAIN data.workoutSessions |-> StripDangling(data.workoutSessions[k])]

\* C24: an id in exerciseIds that is the id of no exercise is filtered when
\* read: getMuscleGroupOrder of every existing exercise is the rank computed
\* with the dangling ids absent, and the exercise lists of a workout session
\* (past-workout card, workout detail, today's exercises) are the lists
\* computed with them absent and hold existing exercises only.
C24_DanglingFiltered ==
  /\ \A id \in ExerciseIds(data), category \in Categories, t \in OrderDates :
       Rank(id, category, t)
         = getMuscleGroupOrder(id, category, t, StrippedSessions,
                               data.exercises)
  /\ \A w \in Range(data.workoutSessions) :
       /\ exercisesWithSets(data, w) = exercisesWithSets(data, StripDangling(w))
       /\ exercisesWithSessions(w, data.exercises)
            = exercisesWithSessions(StripDangling(w), data.exercises)
       /\ exercisedToday(data, w) = exercisedToday(data, StripDangling(w))
       /\ \A e \in Range(exercisesWithSets(data, w))
                     \cup Range(exercisedToday(data, w)) :
            e \in Range(data.exercises) /\ e.id \notin Dangling(w)
       /\ \A x \in Range(exercisesWithSessions(w, data.exercises)) :
            x.exercise \in Range(data.exercises) /\ x.exercise.id \notin Dangling(w)

\* an exercise listed first in a workout session was deleted; the exercise
\* listed after it, of the same category, has sets that day and rank 1
C24_Witness ==
  /\ last.op = "deleteExercise"
  /\ \E w \in Range(data.workoutSessions) :
       /\ Len(w.exerciseIds) >= 2
       /\ w.exerciseIds[1] = last.a
       /\ last.a \in Dangling(w)
       /\ w.exerciseIds[2] \in ExerciseIds(data)
       /\ \E e \in Range(prev.exercises) :
            /\ e.id = last.a
            /\ e.category = ExerciseById(data, w.exerciseIds[2]).category
       /\ Rank(w.exerciseIds[2], ExerciseById(data, w.exerciseIds[2]).category,
               w.startTime) = <<1>>
       /\ Len(exercisesWithSets(data, w)) = 1

\* the dates the order is asked for: of workout sessions, of exercise
\* sessions, and now
FallbackDates == OrderDates \cup {x.date : x \in SessionsOf(data)} \cup {now}

\* the ids of the exercises, in exercise-list order, that have the category
\* and a session with at least one set on the date of t
LoggedOfCategory(category, t) ==
  LET logged2 == SelectSeq(data.exercises, LAMBDA e :
                   /\ e.category = category
                   /\ \E x \in Range(e.sessions) :
                        DatePart(x.date) = DatePart(t) /\ x.sets # <<>>)
  IN [k \in DOMAIN logged2 |-> logged2[k].id]

\* no workout session of the date lists id, or id is not in the ids of the
\* category of the first one that does
FallbackCase(id, category, t) ==
  \/ Listing(id, t) = {}
  \/ ~Includes(OfCategory(FirstOf(Listing(id, t)), category), id)

\* C25: when no workout session of the date lists the exercise, or the
\* exercise is not among the ids of the category in the one that does,
\* getMuscleGroupOrder is the 1-based position of the exercise among the
\* exercises, in list order, of the category with a session with sets on
\* that date, and none when it is not among them.
C25_Fallback ==
  \A id \in OrderIds, category \in Categories, t \in FallbackDates :
    FallbackCase(id, category, t) =>
      IF Includes(LoggedOfCategory(category, t), id)
      THEN \E n \in DOMAIN LoggedOfCategory(category, t) :
             /\ PositionIs(LoggedOfCategory(category, t), id, n)
             /\ Rank(id, category, t) = <<n>>
      ELSE Rank(id, category, t) = <<>>

\* a set was just logged on an exercise that no workout session of the day
\* lists, and the exercise is second of its category that day, after an
\* exercise that is first in the list; an exercise listed under another
\* category has no rank
C25_Witness ==
  /\ last.op = "addSetToExercise"
  /\ last.a \in ExerciseIds(data)
  /\ Listing(last.a, last.b) = {}
  /\ Rank(last.a, ExerciseById(data, last.a).category, last.b) = <<2>>
  /\ \E id \in ExerciseIds(data), category \in Categories :
       /\ Listing(id, last.b) # {}
       /\ FallbackCase(id, category, last.b)
       /\ Rank(id, category, last.b) = <<>>

----------------------------------------------------------------------------
(* Mutations issued back to back                                           *)

\* the snapshot the entry point of the command returns on snapshot d
Mutation(d, cmd) ==
  CASE cmd.op = "addSetToExercise" ->
         addSetToExercise(d, cmd.a, cmd.c[1], cmd.b, cmd.c[1].tag + 1)
    [] cmd.op = "addExerciseToWorkoutSession" ->
         addExerciseToWorkoutSession(d, cmd.a, cmd.b)
    [] cmd.op = "endWorkoutSession" -> endWorkoutSession(d, cmd.a, cmd.b)
    [] cmd.op = "deleteExercise" -> deleteExercise(d, cmd.a)

\* the sets of exercise id in snapshot d, session after session
SetsOf(d, id) ==
  Flatten([k \in DOMAIN ExerciseById(d, id).sessions |->
             ExerciseById(d, id).sessions[k].sets])

\* C26: two mutations issued before the next render are both applied, the
\* second to the snapshot the first produced: the snapshot after the render
\* is the second entry point's result on the first's result.  After
\* addExerciseToWorkoutSession and addSetToExercise the session lists the
\* exercise and the exercise holds the set; after two addSetToExercise the
\* snapshot holds both sets, on one exercise in the order of the calls.
C26_BackToBack ==
  last.op = "issueTwo" =>
    /\ data = Mutation(Mutation(prev, last.a), last.b)
    /\ (last.a.op = "addExerciseToWorkoutSession"
          /\ last.b.op = "addSetToExercise") =>
         /\ Includes(WorkoutById(data, last.a.a).exerciseIds, last.a.b)
         /\ TagPresent(data, last.b.c[1].tag)
    /\ (last.a.op = "addSetToExercise" /\ last.b.op = "addSetToExercise") =>
         /\ TagPresent(data, last.a.c[1].tag)
         /\ TagPresent(data, last.b.c[1].tag)
         /\ last.a.a = last.b.a =>
              \E i, j \in DOMAIN SetsOf(data, last.a.a) :
                /\ i < j
                /\ SetsOf(data, last.a.a)[i].tag = last.a.c[1].tag
                /\ SetsOf(data, last.a.a)[j].tag = last.b.c[1].tag

\* an exercise was added to the workout in progress and a set logged on it
\* in one go: the session did not list it before and the set opened a new
\* exercise session
C26_Witness ==
  /\ last.op = "issueTwo"
  /\ last.a.op = "addExerciseToWorkoutSession"
  /\ last.b.op = "addSetToExercise"
  /\ last.a.b = last.b.a
  /\ ~Includes(WorkoutById(prev, last.a.a).exerciseIds, last.a.b)
  /\ WorkoutById(prev, last.a.a).endTime = <<>>
  /\ Len(ExerciseById(data, last.b.a).sessions)
       = Len(ExerciseById(prev, last.b.a).sessions) + 1
  /\ Includes(WorkoutById(data, last.a.a).exerciseIds, last.a.b)
  /\ TagPresent(data, last.b.c[1].tag)

\* the weeks before the current one, from `from' weeks back to the end of
\* the long history, all hold a workout date
WeeksFilled(from) ==
  LET weeks == WorkoutWeeks(data)
  IN \A k \in from..(StreakWeeks - 1) : WeekOf(LocalDay(now)) - k \in weeks

\* C27: getCurrentStreak never exceeds 52; with a workout in each of the
\* last 60 weeks, the current one included, it is 52, and with the current
\* week empty and a workout in each of the weeks before it is 51.
C27_StreakCap ==
  /\ getCurrentStreak(data) <= WeeksChecked
  /\ WeeksFilled(0) => getCurrentStreak(data) = WeeksChecked
  /\ (WeekOf(LocalDay(now)) \notin WorkoutWeeks(data) /\ WeeksFilled(1))
       => getCurrentStreak(data) = WeeksChecked - 1

\* C28: under the UI flow, whenever a set is logged for exercise E the
\* snapshot has an active workout session S and E is in S.exerciseIds at
\* the moment the set is stored; every logged set is recorded with the
\* session it was logged in.
C28_LoggedInActiveSession ==
  /\ \A l \in logged : l.ws # 0
  /\ last.op = "addSetToExercise" =>
       LET activeSession == getActiveWorkoutSession(prev)
       IN /\ activeSession # <<>>
          /\ last.a \in Range(activeSession[1].exerciseIds)
          /\ getActiveWorkoutSession(data) # <<>>
          /\ last.a \in Range(getActiveWorkoutSession(data)[1].exerciseIds)

\* a set was logged from the set logger reached again on the way back
\* from the exercise's detail page
C28_Witness ==
  /\ last.op = "addSetToExercise"
  /\ ret # 0
  /\ last.a = ret
  /\ TagPresent(data, last.c.tag)

\* no workout date is later than today, read as the local calendar day or
\* as the UTC day addSetToExercise writes, whichever is later
NotLaterThanToday(d) ==
  LET dates == getUniqueWorkoutDates(d)
  IN \A i \in DOMAIN dates : dates[i] <= Max(LocalDay(now), DatePart(now))

\* C29: in every snapshot whose workout dates are not later than today, a
\* positive getWorkoutsThisWeek implies getCurrentStreak >= 1.
C29_WeekStatsAgree ==
  (NotLaterThanToday(data) /\ getWorkoutsThisWeek(data) > 0)
    => getCurrentStreak(data) >= 1

\* today is a Monday, the only workout of the Sunday-based week is dated
\* the Sunday before, in the Monday-based week before the current one, and
\* a set has been added
C29_Witness ==
  /\ NotLaterThanToday(data)
  /\ getWorkoutsThisWeek(data) > 0
  /\ DayOfWeek(LocalDay(now)) = 1
  /\ WeekOf(LocalDay(now)) \notin WorkoutWeeks(data)
  /\ last.op = "addSetToExercise"

\* C30: every snapshot that importData accepts and replaceData installs
\* has both an exercises sequence and a workoutSessions sequence, so the
\* derivations and the mutation operations are defined on it.
C30_ImportedSnapshotShaped ==
  (last.op = "import" /\ importData(last.c) # <<>>)
    => DOMAIN data = {"exercises", "workoutSessions"}

====
